---------------------------- MODULE Spec2Model ----------------------------
(***************************************************************************)
(* Kalshi / Polymarket monitoring-and-execution engine.                    *)
(*                                                                         *)
(* The module holds four state machines over one set of variables:         *)
(*   SpecLock  - the single-instance lock (core/monitor-lock.ts), several  *)
(*               processes interleaving at file-system-call granularity;   *)
(*   SpecFC    - the follow-confidence strategy                            *)
(*               (monitor/kalshi-1-poly-strategy.ts) with the Polymarket   *)
(*               order layer and the holdings ledger;                      *)
(*   SpecArb   - the cross-venue arbitrage strategy (arb part of           *)
(*               kalshi/bot.ts), evaluations overlapping at their awaits;  *)
(*   SpecFeed  - the dual price feed (dual-monitor).                       *)
(* Each specification moves its own variables and leaves the others at     *)
(* their initial values.                                                   *)
(*                                                                         *)
(* Prices are held in hundredths (Kalshi cents, Polymarket price * 100).   *)
(* Every comparison the code makes on a JavaScript number is made here on  *)
(* the IEEE-754 double the code computes, modelled bit by bit below.       *)
(***************************************************************************)
EXTENDS Integers, Sequences, FiniteSets, TLC

(***************************************************************************)
(* IEEE-754 binary64 values in [0, 4), as a fixed-point bit sequence:      *)
(* INT_BITS integer bits then FRAC_BITS fractional bits, most significant  *)
(* first.  Every double >= 2^-11 below 4 is exactly such a sequence with   *)
(* at most MANT_BITS significant bits.                                     *)
(***************************************************************************)
INT_BITS == 2
FRAC_BITS == 64
MANT_BITS == 53
NBITS == INT_BITS + FRAC_BITS

\* 2^e mod d for e <= 3 * 22, the exponent split so that no power overflows
Pow2Mod(e, d) ==
  LET a == e \div 3
      b == (e - a) \div 2
      c == e - a - b
  IN (((2^a) % d) * ((2^b) % d) * ((2^c) % d)) % d

\* the remainder left after n steps of the long division of r by d, 0 <= r < d
FracRem(r, d, n) == (r * Pow2Mod(n, d)) % d

\* the i-th fractional bit of r/d
FracBit(r, d, i) == IF 2 * FracRem(r, d, i - 1) >= d THEN 1 ELSE 0

\* the exact quotient n/d cut after FRAC_BITS fractional bits
Quotient(n, d) ==
  [i \in 1..NBITS |->
     IF i = 1 THEN ((n \div d) \div 2) % 2
     ELSE IF i = 2 THEN (n \div d) % 2
     ELSE FracBit(n % d, d, i - INT_BITS)]

\* the place of the leading 1, or 0
FirstOne(b) ==
  IF \E i \in 1..NBITS : b[i] = 1
  THEN CHOOSE i \in 1..NBITS : b[i] = 1 /\ \A j \in 1..(i - 1) : b[j] = 0
  ELSE 0

\* add one unit in the place i, carrying to the left
IncAt(b, i) ==
  [j \in 1..NBITS |->
     IF j <= i /\ \A k \in (j + 1)..i : b[k] = 1 THEN 1 - b[j] ELSE b[j]]

\* round to nearest, ties to even, keeping MANT_BITS significant bits;
\* sticky says that the exact value has non-zero bits beyond the sequence
RoundNearestEven(b, sticky) ==
  LET k == FirstOne(b)
      last == k + MANT_BITS - 1
  IN IF k = 0 \/ last >= NBITS THEN b
     ELSE LET guard == b[last + 1]
              rest == sticky \/ \E i \in (last + 2)..NBITS : b[i] = 1
              kept == [i \in 1..NBITS |-> IF i <= last THEN b[i] ELSE 0]
          IN IF guard = 1 /\ (rest \/ b[last] = 1) THEN IncAt(kept, last) ELSE kept

\* the double nearest to n/d: what parseFloat("0.42") and the division
\* cents / 100 both return
DoubleOf(n, d) ==
  RoundNearestEven(Quotient(n, d), FracRem(n % d, d, FRAC_BITS) # 0)

\* the carry into place i of x + y, and the borrow into place i of x - y
CarryIn(x, y, i) ==
  \E k \in (i + 1)..NBITS :
    x[k] + y[k] = 2 /\ \A j \in (i + 1)..(k - 1) : x[j] + y[j] >= 1
BorrowIn(x, y, i) ==
  \E k \in (i + 1)..NBITS :
    x[k] < y[k] /\ \A j \in (i + 1)..(k - 1) : x[j] <= y[j]

AddBits(x, y) ==
  [i \in 1..NBITS |-> (x[i] + y[i] + (IF CarryIn(x, y, i) THEN 1 ELSE 0)) % 2]
SubBits(x, y) ==
  [i \in 1..NBITS |-> (2 + x[i] - y[i] - (IF BorrowIn(x, y, i) THEN 1 ELSE 0)) % 2]

\* x + y and x - y (x >= y) as the hardware computes them
FAdd(x, y) == RoundNearestEven(AddBits(x, y), FALSE)
FSub(x, y) == RoundNearestEven(SubBits(x, y), FALSE)

FLess(x, y) ==
  \E i \in 1..NBITS : x[i] < y[i] /\ \A j \in 1..(i - 1) : x[j] = y[j]
FLeq(x, y) == ~FLess(y, x)
FGeq(x, y) == ~FLess(x, y)

(***************************************************************************)
(* Price domains, in hundredths.                                           *)
(***************************************************************************)
Hundredths == 0..101
Dbl[h \in Hundredths] == DoubleOf(h, 100)

(***************************************************************************)
(* Bounds of the model.                                                    *)
(***************************************************************************)
MaxProcs == 3        \* engine processes (pids) that ever start
MaxSlots == 2        \* quarter-hour slots the clock runs through

Procs == 1..MaxProcs
Slots == 1..MaxSlots \* a slot names its Kalshi ticker and its Polymarket market

NULL == "null"                          \* a null order result
NoAsk == [up |-> -1, down |-> -1]       \* a venue read that returned null
NoBalance == -1                        \* a balance query that returned null

VARIABLES
  \* ---- single-instance lock ----
  lockFile,      \* content of logs/monitor.lock: 0 = absent, else a pid
  lpc,           \* per process: where it is in its life
  lexisting,     \* per process: the pid it last read from the lock file
  \* ---- environment of one engine process ----
  slot,          \* the quarter-hour the wall clock is in
  late,          \* at least MINUTES_PAST_QUARTER_USE_BALANCE minutes into it
  feedTicker,    \* the Kalshi ticker the feed is polling (the slot of that market)
  polyOn,        \* POLYMARKET_PRIVATE_KEY and POLYMARKET_PROXY are set
  ledger,        \* data/token-holding.json: conditionId -> (token -> amount)
  bought,        \* history: sizes of the confirmed buys since the entry was absent
  \* ---- follow-confidence strategy (kalshi-1-poly-strategy.ts) ----
  fcDryRun,      \* KALSHI_1_POLY_DRY_RUN
  position, lastTicker, entryAttemptedTicker, cycleDoneTicker,
  seenKalshiUp1, seenKalshiDown1, strategyBusy, seenTickers, skippedTickers,
  lastQuarterStartMs, cachedProxyBalanceUsd, balanceFetchScheduled,
  balanceFetchTimeoutId,
  fetchInFlight, \* the timer's getPolymarketBalanceUsd() has not resolved yet
  fcPc,          \* the await the running evaluation is suspended at
  fcSnap,        \* its snapshot p while the decision is still ahead: the ticker
                 \* and market of p; p's four asks are drawn where the
                 \* evaluation first reads them (lines 181-184)
  fcTicker,      \* its const ticker
  fcNowLate,     \* minutesSinceLastQuarter(nowMs) >= 5 for its nowMs
  fcBuy,         \* the buy it is placing
  fcAttempt,     \* its sell loop's attempt
  fcEvent,       \* history: the order outcome of the evaluation that ran last
  fcHist,        \* history: what the evaluations have read and done so far
  \* ---- arbitrage strategy (arb part of kalshi/bot.ts) ----
  arbDryRun,     \* ARB_DRY_RUN
  upArbDoneTickers, downArbDoneTickers, openArbPositions,
  arbInFlight,   \* the evaluations suspended at an await, each with the await
                 \* it is at and its ticker, leg, market and Kalshi result
  arbAttempts,   \* history: entry attempts made, per ticker and leg
  arbEvent,      \* history: what the last evaluation step refused or finished
  \* ---- dual price feed (dual-monitor) ----
  feedMode,      \* "pinned" | "restart" | "norestart"
  kalshiTicker, lastSlot, stopped, pollInProgress,
  feedPc,        \* where the running poll() stands; "idle" between polls
  feedTimers,    \* the setTimeout(poll, ...) timers that are pending
  feedEvent,     \* history: how the poll that ended last ended
  spawnLog,      \* history: what spawnAndExit did to the process, in order
  feedFetch,     \* the getDualPrices call in flight
  delivered,     \* history: the snapshot handed to onPrices last
  \* ---- the exit test of the follow-confidence strategy, on its own ----
  exitCase,      \* configured thresholds, the held side's two asks, the verdict
  \* ---- main() of the two entry points, up to the start of the feed ----
  startCase,     \* the entry point, the balances read at startup, where main() is
  \* ---- the ledger file under the engine and the auto-redeem process ----
  ledgerIO       \* each process's loadHoldings() copy between its read of the
                 \* file and its write, and the buy or market it is writing for

lockVars == <<lockFile, lpc, lexisting>>
envVars == <<slot, late, feedTicker, polyOn, ledger, bought>>
fcVars == <<fcDryRun, position, lastTicker, entryAttemptedTicker, cycleDoneTicker,
            seenKalshiUp1, seenKalshiDown1, strategyBusy, seenTickers,
            skippedTickers, lastQuarterStartMs, cachedProxyBalanceUsd,
            balanceFetchScheduled, balanceFetchTimeoutId, fetchInFlight, fcPc,
            fcSnap, fcTicker, fcNowLate, fcBuy, fcAttempt, fcEvent, fcHist>>
arbVars == <<arbDryRun, upArbDoneTickers, downArbDoneTickers, openArbPositions,
             arbInFlight, arbAttempts, arbEvent>>
feedVars == <<feedMode, kalshiTicker, lastSlot, stopped, pollInProgress, feedPc,
              feedTimers, feedEvent, spawnLog,
              feedFetch, delivered>>
vars == <<lockVars, envVars, fcVars, arbVars, feedVars, exitCase, startCase, ledgerIO>>
notLock == <<envVars, fcVars, arbVars, feedVars, exitCase, startCase, ledgerIO>>
notFC == <<lockVars, arbVars, feedVars, exitCase, startCase, ledgerIO>>
notArb == <<lockVars, fcVars, feedVars, exitCase, startCase, ledgerIO>>
notFeed == <<lockVars, fcVars, arbVars, exitCase, startCase, ledgerIO>>
notLedger == <<lockVars, fcVars, arbVars, feedVars, exitCase, startCase>>

(***************************************************************************)
(* ProcessLock: core/monitor-lock.ts.  One step per file-system or signal  *)
(* call; processes interleave between calls.  Pids are not reused.         *)
(***************************************************************************)
AcquirePcs == {"kill_read", "kill_probe", "kill_term", "kill_unlink",
               "write_wx", "read2", "probe2", "write2"}

\* process.kill(pid, 0) succeeds: the process exists
isPidRunning(pid) == lpc[pid] \in AcquirePcs \cup {"running", "releasing"}

LockInit ==
  /\ lockFile = 0
  /\ lpc = [p \in Procs |-> "idle"]
  /\ lexisting = [p \in Procs |-> 0]

\* main(): validateRequiredEnvOrExit(); acquireMonitorLock()
StartProcess(p) ==
  /\ lpc[p] = "idle"
  /\ lpc' = [lpc EXCEPT ![p] = "kill_read"]
  /\ UNCHANGED <<lockFile, lexisting>>
  /\ UNCHANGED notLock

\* killExistingAndRemoveLock: readFileSync; absent -> return; own pid -> unlink
KillRead(p) ==
  /\ lpc[p] = "kill_read"
  /\ lexisting' = [lexisting EXCEPT ![p] = lockFile]
  /\ lpc' = [lpc EXCEPT ![p] =
               IF lockFile = 0 THEN "write_wx"
               ELSE IF lockFile = p THEN "kill_unlink" ELSE "kill_probe"]
  /\ UNCHANGED lockFile
  /\ UNCHANGED notLock

\* killExistingAndRemoveLock: if (isPidRunning(existingPid))
KillProbe(p) ==
  /\ lpc[p] = "kill_probe"
  /\ lpc' = [lpc EXCEPT ![p] =
               IF isPidRunning(lexisting[p]) THEN "kill_term" ELSE "kill_unlink"]
  /\ UNCHANGED <<lockFile, lexisting>>
  /\ UNCHANGED notLock

\* process.kill(existingPid, "SIGTERM"): no handler is installed for SIGTERM,
\* so the target ends at once; a failure to signal is ignored
KillTerm(p) ==
  /\ lpc[p] = "kill_term"
  /\ lpc' = [lpc EXCEPT ![p] = "kill_unlink",
                        ![lexisting[p]] =
                           IF isPidRunning(lexisting[p]) THEN "killed" ELSE @]
  /\ UNCHANGED <<lockFile, lexisting>>
  /\ UNCHANGED notLock

\* fs.unlinkSync(LOCK_FILE), errors ignored
KillUnlink(p) ==
  /\ lpc[p] = "kill_unlink"
  /\ lockFile' = 0
  /\ lpc' = [lpc EXCEPT ![p] = "write_wx"]
  /\ UNCHANGED lexisting
  /\ UNCHANGED notLock

\* writeFileSync(LOCK_FILE, pid, {flag: "wx"}): creates, or fails with EEXIST
WriteWx(p) ==
  /\ lpc[p] = "write_wx"
  /\ IF lockFile = 0
     THEN lockFile' = p /\ lpc' = [lpc EXCEPT ![p] = "running"]
     ELSE lockFile' = lockFile /\ lpc' = [lpc EXCEPT ![p] = "read2"]
  /\ UNCHANGED lexisting
  /\ UNCHANGED notLock

\* after EEXIST: read the file again (absent -> "")
Read2(p) ==
  /\ lpc[p] = "read2"
  /\ lexisting' = [lexisting EXCEPT ![p] = lockFile]
  /\ lpc' = [lpc EXCEPT ![p] = "probe2"]
  /\ UNCHANGED lockFile
  /\ UNCHANGED notLock

\* if (Number.isFinite(existingPid) && isPidRunning(existingPid)) process.exit(1)
Probe2(p) ==
  /\ lpc[p] = "probe2"
  /\ lpc' = [lpc EXCEPT ![p] =
               IF lexisting[p] # 0 /\ isPidRunning(lexisting[p])
               THEN "refused" ELSE "write2"]
  /\ UNCHANGED <<lockFile, lexisting>>
  /\ UNCHANGED notLock

\* writeFileSync(LOCK_FILE, pid): overwrite
Write2(p) ==
  /\ lpc[p] = "write2"
  /\ lockFile' = p
  /\ lpc' = [lpc EXCEPT ![p] = "running"]
  /\ UNCHANGED lexisting
  /\ UNCHANGED notLock

\* releaseMonitorLock() from the SIGINT handler or from spawnAndExit:
\* unlink whatever lock file is there
ReleaseLock(p) ==
  /\ lpc[p] = "running"
  /\ lockFile' = 0
  /\ lpc' = [lpc EXCEPT ![p] = "releasing"]
  /\ UNCHANGED lexisting
  /\ UNCHANGED notLock

\* ... followed by process.exit(0)
ExitAfterRelease(p) ==
  /\ lpc[p] = "releasing"
  /\ lpc' = [lpc EXCEPT ![p] = "exited"]
  /\ UNCHANGED <<lockFile, lexisting>>
  /\ UNCHANGED notLock

\* process.exit(1) after the lock was taken, without releaseMonitorLock():
\* checkBalancesOrExit, or main().catch when discovery finds no market
ExitNoRelease(p) ==
  /\ lpc[p] = "running"
  /\ lpc' = [lpc EXCEPT ![p] = "exited"]
  /\ UNCHANGED <<lockFile, lexisting>>
  /\ UNCHANGED notLock

LockNext ==
  \E p \in Procs :
    \/ StartProcess(p)
    \/ KillRead(p)
    \/ KillProbe(p)
    \/ KillTerm(p)
    \/ KillUnlink(p)
    \/ WriteWx(p)
    \/ Read2(p)
    \/ Probe2(p)
    \/ Write2(p)
    \/ ReleaseLock(p)
    \/ ExitAfterRelease(p)
    \/ ExitNoRelease(p)

(***************************************************************************)
(* PositionStore: polymarket/holdings.ts.  The file is read whole, changed *)
(* and written whole inside one synchronous call.                          *)
(***************************************************************************)
\* addHolding(conditionId, tokenId, amount); conditionId 0 is the empty string
addHolding_NotSaved(h, c, t, a) == h
addHolding(h, c, t, a) ==
  IF c = 0 \/ a <= 0 THEN h
  ELSE LET m == IF c \in DOMAIN h THEN h[c] ELSE << >>
           cur == IF t \in DOMAIN m THEN m[t] ELSE 0
       IN [x \in DOMAIN h \cup {c} |->
             IF x = c
             THEN [y \in DOMAIN m \cup {t} |-> IF y = t THEN cur + a ELSE m[y]]
             ELSE h[x]]

\* a clearing that empties the market's token map and keeps the key
clearMarketHoldings_KeepsKey(h, c) ==
  IF c \in DOMAIN h THEN [x \in DOMAIN h |-> IF x = c THEN << >> ELSE h[x]] ELSE h

\* clearMarketHoldings(conditionId): delete the key
clearMarketHoldings(h, c) ==
  IF c \in DOMAIN h THEN [x \in DOMAIN h \ {c} |-> h[x]] ELSE h

\* getMarketHoldings(conditionId)[tokenId] ?? 0
HeldAmount(h, c, t) ==
  IF c \in DOMAIN h /\ t \in DOMAIN h[c] THEN h[c][t] ELSE 0

(***************************************************************************)
(* The wall clock and the market the feed is pointed at.                   *)
(***************************************************************************)
EnvInit ==
  /\ slot = 1
  /\ late \in BOOLEAN
  /\ feedTicker = 1
  /\ polyOn \in BOOLEAN
  /\ ledger = << >>
  /\ bought = << >>

(***************************************************************************)
(* Follow-confidence strategy: monitor/kalshi-1-poly-strategy.ts, with     *)
(* placePolymarketOrder / sellPolymarketOrder of polymarket/order.ts.      *)
(* A step runs from one await that needs the event loop (a venue call or a *)
(* timer) to the next one.                                                 *)
(***************************************************************************)
KALSHI_1 == 100
POLY_PRICE_MAX == 99
SELL_MAX_ATTEMPTS == 20
POLY_BUY_MIN == 80
POLY_SELL_BELOW == 70
POLY_SELL_RANGE_BUFFER == 15
KALSHI_1_POLY_SIZE == 5

\* venue answers the model draws from
FcKalshiAsks == {50, 100, 101}      \* cents; the API's yes_ask / no_ask is not validated
FcPolyAsks == {50, 55, 80}          \* hundredths
UsdBalances == {5}                  \* whole dollars of collateral
ShareBalances == {0, 5}             \* whole shares held on chain

NoPos == [side |-> "NONE", size |-> 0, conditionId |-> 0]
NoBuy == [side |-> "NONE", size |-> 0, conditionId |-> 0]
NoPoly == [up |-> -1, down |-> -1, conditionId |-> 0]
NoSnap == [ticker |-> 0, conditionId |-> 0]
NoEvent == [kind |-> "none", ticker |-> 0, conditionId |-> 0]
NoHist == [of |-> 0, evaluated |-> {}, firstCertain |-> {}, certUp |-> FALSE,
           certDown |-> FALSE, tried |-> {}, buyAsk |-> -1,
           exitDue |-> FALSE, doneNow |-> FALSE, overlap |-> FALSE]

FcInit ==
  /\ fcDryRun \in BOOLEAN
  /\ position = NoPos
  /\ lastTicker = 0
  /\ entryAttemptedTicker = 0
  /\ cycleDoneTicker = 0
  /\ seenKalshiUp1 = FALSE
  /\ seenKalshiDown1 = FALSE
  /\ strategyBusy = FALSE
  /\ seenTickers = {}
  /\ skippedTickers = {}
  /\ lastQuarterStartMs = 0
  /\ cachedProxyBalanceUsd = NoBalance
  /\ balanceFetchScheduled = FALSE
  /\ balanceFetchTimeoutId = FALSE
  /\ fetchInFlight = FALSE
  /\ fcPc = "idle"
  /\ fcSnap = NoSnap
  /\ fcTicker = 0
  /\ fcNowLate = FALSE
  /\ fcBuy = NoBuy
  /\ fcAttempt = 0
  /\ fcEvent = NoEvent
  /\ fcHist = NoHist

\* what getPolymarketBalanceUsd() can resolve to
UsdBalanceResults == IF polyOn THEN UsdBalances \cup {NoBalance} ELSE {NoBalance}
\* what placePolymarketOrder() can resolve to at the venue: an order id, a
\* could-not-be-fully-filled error, another error; null when not configured
BuyResults == IF polyOn THEN {"ok", "fok", "err"} ELSE {NULL}
\* what sellPolymarketOrder() can resolve to
SellResults == IF polyOn THEN {"ok", "err"} ELSE {NULL}

\* the evaluation's own control state; strategyBusy is set on entry and
\* cleared by the finally block
FcCtl_NeverBusy(pc, snap, tk, nl, buy, att) ==
  /\ fcPc' = pc
  /\ fcSnap' = snap
  /\ fcTicker' = tk
  /\ fcNowLate' = nl
  /\ fcBuy' = buy
  /\ fcAttempt' = att
  /\ strategyBusy' = FALSE
FcCtl_StaysBusy(pc, snap, tk, nl, buy, att) ==
  /\ fcPc' = pc
  /\ fcSnap' = snap
  /\ fcTicker' = tk
  /\ fcNowLate' = nl
  /\ fcBuy' = buy
  /\ fcAttempt' = att
  /\ strategyBusy' = (strategyBusy \/ pc # "idle")
FcCtl(pc, snap, tk, nl, buy, att) ==
  /\ fcPc' = pc
  /\ fcSnap' = snap
  /\ fcTicker' = tk
  /\ fcNowLate' = nl
  /\ fcBuy' = buy
  /\ fcAttempt' = att
  /\ strategyBusy' = (pc # "idle")

FcReturn == FcCtl("idle", NoSnap, 0, FALSE, NoBuy, 0)

\* kUp >= 1, kDown >= 1, kalshiSameSide >= 1.0 on cents / 100
AtLeastOneDollar == {h \in Hundredths : FGeq(Dbl[h], Dbl[100])}

\* POLY_SELL_BELOW - POLY_SELL_RANGE_BUFFER
BufferedSellThreshold == FSub(Dbl[POLY_SELL_BELOW], Dbl[POLY_SELL_RANGE_BUFFER])

\* the asks below POLY_SELL_BELOW, and those below the buffered threshold
BelowSellThreshold == {h \in Hundredths : FLess(Dbl[h], Dbl[POLY_SELL_BELOW])}
BelowBufferedSellThreshold == {h \in Hundredths : FLess(Dbl[h], BufferedSellThreshold)}

\* currentPrice < effectiveSellThreshold, where effectiveSellThreshold is
\* kalshiSameSide >= 1.0 ? POLY_SELL_BELOW - POLY_SELL_RANGE_BUFFER : POLY_SELL_BELOW
ExitTriggered(pos, snap) ==
  LET currentPrice == IF pos.side = "UP" THEN snap.polymarket.up
                      ELSE snap.polymarket.down
      kalshiSameSide == IF pos.side = "UP" THEN snap.kalshi.up ELSE snap.kalshi.down
  IN IF kalshiSameSide \in AtLeastOneDollar
     THEN currentPrice \in BelowBufferedSellThreshold
     ELSE currentPrice \in BelowSellThreshold

\* polyX >= POLY_BUY_MIN && polyX <= POLY_PRICE_MAX
BuyablePolyAsks ==
  {h \in Hundredths : /\ FGeq(Dbl[h], Dbl[POLY_BUY_MIN])
                       /\ FLeq(Dbl[h], Dbl[POLY_PRICE_MAX])}

\* buy size: fixed, or floor(cached balance) once 5 minutes past the quarter
BuySize(nowLate, cached) ==
  IF nowLate /\ cached # NoBalance /\ cached >= 1
  THEN (IF cached > 1 THEN cached ELSE 1)
  ELSE KALSHI_1_POLY_SIZE

\* canBuyUp / canBuyDown: seenKalshiX1 && polyX in [POLY_BUY_MIN, POLY_PRICE_MAX]
CanBuy_Unseen(seen1, polyAsk) == polyAsk \in BuyablePolyAsks
CanBuy(seen1, polyAsk) == seen1 /\ polyAsk \in BuyablePolyAsks

\* if (!seenTickers.has(ticker)) { ...; if (kUp >= 1 || kDown >= 1)
\* skippedTickers.add(ticker) }
markSkipped_Never(skipped, tk, skipNow) == skipped
markSkipped(skipped, tk, skipNow) == IF skipNow THEN skipped \cup {tk} ELSE skipped

\* if (cycleDoneTicker === ticker) return
cycleDone_Never(cyc, tk) == FALSE
cycleDone(cyc, tk) == cyc = tk

\* checkKalshi1PolyStrategy from "if (position)" to its next await or return,
\* on the values onNewTicker and ensureProxyBalanceScheduledOrFetched left
Decide(snap, nowLate, pos, cyc, sUp, sDown, cached) ==
  LET tk == snap.ticker
      kUp == snap.kalshi.up
      kDown == snap.kalshi.down
      pm == snap.polymarket
  IN IF pos # NoPos
     THEN /\ UNCHANGED <<seenTickers, skippedTickers>>
          /\ seenKalshiUp1' = sUp
          /\ seenKalshiDown1' = sDown
          /\ IF ~ExitTriggered(pos, snap)
             THEN position' = pos /\ cycleDoneTicker' = cyc /\ fcEvent' = NoEvent
                  /\ FcReturn
             ELSE IF fcDryRun
             THEN position' = NoPos /\ cycleDoneTicker' = tk
                  /\ fcEvent' = [kind |-> "dry_exit", ticker |-> tk,
                                 conditionId |-> pos.conditionId]
                  /\ FcReturn
             ELSE position' = pos /\ cycleDoneTicker' = cyc /\ fcEvent' = NoEvent
                  /\ FcCtl("sell", NoSnap, tk, FALSE, NoBuy, 1)
     ELSE LET skipNow == tk \notin seenTickers
                          /\ (kUp \in AtLeastOneDollar \/ kDown \in AtLeastOneDollar)
              skipped2 == markSkipped(skippedTickers, tk, skipNow)
              sUp2 == sUp \/ kUp >= KALSHI_1
              sDown2 == sDown \/ kDown >= KALSHI_1
              size == BuySize(nowLate, cached)
          IN /\ seenTickers' = seenTickers \cup {tk}
             /\ skippedTickers' = skipped2
             /\ position' = pos
             /\ cycleDoneTicker' = cyc
             /\ fcEvent' = IF tk \in skipped2
                           THEN [kind |-> IF tk \in skippedTickers THEN "skipped"
                                          ELSE "skip_marked",
                                 ticker |-> tk, conditionId |-> 0]
                           ELSE IF /\ cycleDone(cyc, tk)
                                   /\ CanBuy(sUp2, pm.up) \/ CanBuy(sDown2, pm.down)
                           THEN [kind |-> "cycle_done", ticker |-> tk,
                                 conditionId |-> 0]
                           ELSE NoEvent
             /\ IF tk \in skipped2
                THEN seenKalshiUp1' = sUp /\ seenKalshiDown1' = sDown /\ FcReturn
                ELSE /\ seenKalshiUp1' = sUp2
                     /\ seenKalshiDown1' = sDown2
                     /\ IF cycleDone(cyc, tk) THEN FcReturn
                        ELSE IF CanBuy(sUp2, pm.up)
                        THEN IF fcDryRun THEN FcReturn
                             ELSE FcCtl("buy1", NoSnap, tk, FALSE,
                                        [side |-> "UP", size |-> size,
                                         conditionId |-> pm.conditionId], 0)
                        ELSE IF CanBuy(sDown2, pm.down)
                        THEN IF fcDryRun THEN FcReturn
                             ELSE FcCtl("buy1", NoSnap, tk, FALSE,
                                        [side |-> "DOWN", size |-> size,
                                         conditionId |-> pm.conditionId], 0)
                        ELSE FcReturn

\* isRealKalshiPrice: cents / 100 is within [0, 1]
RealKalshiPrices == {h \in Hundredths : FGeq(Dbl[h], Dbl[0]) /\ FLeq(Dbl[h], Dbl[100])}
isRealKalshiPrice(cents) == cents \in RealKalshiPrices

\* isRealPolyPrice: the decimal price is within [0, 1]
RealPolyPrices == {h \in Hundredths : FGeq(Dbl[h], Dbl[0]) /\ FLeq(Dbl[h], Dbl[100])}
isRealPolyPrice(price) == price \in RealPolyPrices

\* the test formatDualPricesLine makes before it prints a snapshot: both reads
\* present and all four asks real
allPricesReal(k, pmAsk) ==
  /\ k # NoAsk /\ pmAsk # NoAsk
  /\ isRealKalshiPrice(k.up) /\ isRealKalshiPrice(k.down)
  /\ isRealPolyPrice(pmAsk.up) /\ isRealPolyPrice(pmAsk.down)

\* currentPrice < effectiveSellThreshold under configured POLY_SELL_BELOW and
\* POLY_SELL_RANGE_BUFFER (parseFloat of the environment), in binary64
exitTest(currentPrice, kalshiSameSide, sellBelow, rangeBuffer) ==
  LET effectiveSellThreshold ==
        IF FGeq(Dbl[kalshiSameSide], Dbl[100])
        THEN FSub(Dbl[sellBelow], Dbl[rangeBuffer]) ELSE Dbl[sellBelow]
  IN FLess(Dbl[currentPrice], effectiveSellThreshold)

\* the exit test applied to one held position's tick
NoCase == [sellBelow |-> 0, rangeBuffer |-> 0, kalshiSameSide |-> 0,
           currentPrice |-> 0, exit |-> "none"]
ExitCases == [sellBelow : {POLY_SELL_BELOW, 80},
              rangeBuffer : {POLY_SELL_RANGE_BUFFER, 10},
              kalshiSameSide : {50, 100},
              currentPrice : {50, 54, 55, 60, 65, 69, 70, 75},
              exit : {"pending"}]
ExitEval ==
  /\ exitCase.exit = "pending"
  /\ exitCase' = [exitCase EXCEPT !.exit =
                    IF exitTest(exitCase.currentPrice, exitCase.kalshiSameSide,
                                exitCase.sellBelow, exitCase.rangeBuffer)
                    THEN "yes" ELSE "no"]
  /\ UNCHANGED <<lockVars, envVars, fcVars, arbVars, feedVars, startCase, ledgerIO>>

\* the threshold the held side's ask is measured against, in exact hundredths
EffectiveThreshold(kalshiSameSide) ==
  IF kalshiSameSide >= 100 THEN POLY_SELL_BELOW - POLY_SELL_RANGE_BUFFER
  ELSE POLY_SELL_BELOW

\* the record of an evaluation that read snapshot snap while holding pos and
\* went on as the primed variables say.  of is the ticker the per-ticker
\* fields are about; a new ticker starts them afresh.
Seen(h, snap, pos) ==
  LET tk == snap.ticker
      h0 == IF h.of = tk THEN h
            ELSE [h EXCEPT !.of = tk, !.certUp = FALSE, !.certDown = FALSE,
                           !.tried = {}, !.exitDue = FALSE, !.doneNow = FALSE]
      cUp == snap.kalshi.up >= 100
      cDown == snap.kalshi.down >= 100
      heldAsk == IF pos.side = "UP" THEN snap.polymarket.up ELSE snap.polymarket.down
      heldKalshi == IF pos.side = "UP" THEN snap.kalshi.up ELSE snap.kalshi.down
      due == pos # NoPos /\ heldAsk < EffectiveThreshold(heldKalshi)
      placed == fcPc' = "buy1"
  IN [h0 EXCEPT
        !.evaluated = @ \cup {tk},
        !.firstCertain = IF tk \notin h.evaluated /\ (cUp \/ cDown)
                         THEN @ \cup {tk} ELSE @,
        !.certUp = @ \/ cUp,
        !.certDown = @ \/ cDown,
        !.tried = IF placed THEN @ \cup {fcBuy'.side} ELSE @,
        !.buyAsk = IF ~placed THEN -1
                   ELSE IF fcBuy'.side = "UP" THEN snap.polymarket.up
                   ELSE snap.polymarket.down,
        !.exitDue = position' # NoPos /\ (@ \/ due),
        !.doneNow = @ \/ (pos # NoPos /\ position' = NoPos)]

\* onPrices -> checkKalshi1PolyStrategy(p) that returns at one of its two
\* guards: a venue read is missing (p.kalshi or p.polymarket is null), or
\* strategyBusy is set
FcTickDropped(k, pmAsk) ==
  /\ k = NoAsk \/ pmAsk = NoAsk \/ strategyBusy
  /\ UNCHANGED vars

\* onPrices -> checkKalshi1PolyStrategy(p) past the guards: onNewTicker, the
\* synchronous part of ensureProxyBalanceScheduledOrFetched, and on to Decide
\* unless the balance has to be fetched first
FcTick(k, pmAsk) ==
  LET pm == [up |-> pmAsk.up, down |-> pmAsk.down, conditionId |-> slot]
      snap == [ticker |-> feedTicker, kalshi |-> k, polymarket |-> pm]
      tk == feedTicker
      newTicker == lastTicker # 0 /\ lastTicker # tk
      pos1 == IF newTicker THEN NoPos ELSE position
      ea1 == IF newTicker THEN 0 ELSE entryAttemptedTicker
      cyc1 == IF newTicker THEN 0 ELSE cycleDoneTicker
      sUp1 == IF newTicker THEN FALSE ELSE seenKalshiUp1
      sDown1 == IF newTicker THEN FALSE ELSE seenKalshiDown1
      newQuarter == slot # lastQuarterStartMs
      sched1 == IF newQuarter THEN FALSE ELSE balanceFetchScheduled
      cached1 == IF newQuarter THEN NoBalance ELSE cachedProxyBalanceUsd
      timer1 == IF newQuarter THEN FALSE ELSE balanceFetchTimeoutId
      hist1 == [fcHist EXCEPT !.overlap = @ \/ fcPc # "idle"]
  IN /\ k # NoAsk /\ pmAsk # NoAsk /\ ~strategyBusy
     /\ lastTicker' = tk
     /\ entryAttemptedTicker' = ea1
     /\ lastQuarterStartMs' = slot
     /\ balanceFetchScheduled' = TRUE
     /\ cachedProxyBalanceUsd' = cached1
     /\ UNCHANGED <<notFC, slot, late, feedTicker, polyOn, ledger, bought,
                    fcDryRun, fetchInFlight>>
     /\ IF ~sched1 /\ late
        THEN \* balance = await getPolymarketBalanceUsd()
             /\ balanceFetchTimeoutId' = timer1
             /\ position' = pos1
             /\ cycleDoneTicker' = cyc1
             /\ seenKalshiUp1' = sUp1
             /\ seenKalshiDown1' = sDown1
             /\ UNCHANGED <<seenTickers, skippedTickers>>
             /\ fcEvent' = NoEvent
             /\ FcCtl("ensure_fetch", [ticker |-> tk, conditionId |-> slot], tk,
                      late, NoBuy, 0)
             /\ fcHist' = hist1
        ELSE /\ balanceFetchTimeoutId' = (IF sched1 THEN timer1 ELSE TRUE)
             /\ Decide(snap, late, pos1, cyc1, sUp1, sDown1, cached1)
             /\ fcHist' = Seen(hist1, snap, pos1)

\* the awaited getPolymarketBalanceUsd() of ensureProxyBalanceScheduledOrFetched
\* resolves with b, and the evaluation goes on to read p's asks k and pmAsk
FcEnsureFetchDone(b, k, pmAsk) ==
  /\ fcPc = "ensure_fetch"
  /\ k # NoAsk /\ pmAsk # NoAsk
  /\ LET cached1 == IF b # NoBalance THEN b ELSE cachedProxyBalanceUsd
         snap == [ticker |-> fcSnap.ticker, kalshi |-> k,
                  polymarket |-> [up |-> pmAsk.up, down |-> pmAsk.down,
                                  conditionId |-> fcSnap.conditionId]]
     IN /\ cachedProxyBalanceUsd' = cached1
        /\ Decide(snap, fcNowLate, position, cycleDoneTicker, seenKalshiUp1,
                  seenKalshiDown1, cached1)
        /\ fcHist' = Seen(fcHist, snap, position)
  /\ UNCHANGED <<notFC, envVars, fcDryRun, lastTicker, entryAttemptedTicker,
                 lastQuarterStartMs, balanceFetchScheduled, balanceFetchTimeoutId,
                 fetchInFlight>>

\* the ledger after a placePolymarketOrder(tokenId, price, size, {conditionId})
\* that the venue answered with r: addHolding on an order id (order.ts 225-227)
placePolymarketOrder(h, r, c, t, size) ==
  IF r = "ok" THEN addHolding(h, c, t, size) ELSE h

\* the ledger after the strategy's own bookkeeping of a successful buy
\* (kalshi-1-poly-strategy.ts 305 / 343)
strategyBuyBooked(h, c, t, size) == addHolding(h, c, t, size)

\* placePolyBuyWithRetry resolves: first placement (buy1) or the retry (buy2)
FcBuyResult(r) ==
  /\ fcPc \in {"buy1", "buy2"}
  /\ r = "throw" => fcPc = "buy2"
  /\ LET c == fcBuy.conditionId
         t == fcBuy.side
         afterOrder == placePolymarketOrder(ledger, r, c, t, fcBuy.size)
     IN IF r = "ok"
        THEN /\ entryAttemptedTicker' = fcTicker
             /\ position' = [side |-> t, size |-> fcBuy.size, conditionId |-> c]
             /\ ledger' = strategyBuyBooked(afterOrder, c, t, fcBuy.size)
             /\ bought' = addHolding(bought, c, t, fcBuy.size)
             /\ fcEvent' = [kind |-> "bought", ticker |-> fcTicker, conditionId |-> c]
             /\ UNCHANGED fcHist
             /\ FcCtl("settle", NoSnap, fcTicker, FALSE, fcBuy, 0)
        ELSE IF r = "fok" /\ fcPc = "buy1"
        THEN \* wait FOK_RETRY_MS, read the best ask, place again
             /\ ledger' = afterOrder
             /\ UNCHANGED <<entryAttemptedTicker, position, bought, fcEvent, fcHist>>
             /\ FcCtl("buy2", NoSnap, fcTicker, FALSE, fcBuy, 0)
        ELSE \* an error result, or getBestAskForToken threw before the
             \* second placement: the finally block ends the evaluation
             /\ ledger' = afterOrder
             /\ fcEvent' = IF r = "throw"
                           THEN [kind |-> "threw", ticker |-> fcTicker,
                                 conditionId |-> c]
                           ELSE fcEvent
             /\ UNCHANGED <<entryAttemptedTicker, position, bought, fcHist>>
             /\ FcReturn
  /\ UNCHANGED <<notFC, slot, late, feedTicker, polyOn, fcDryRun, lastTicker,
                 cycleDoneTicker, seenKalshiUp1, seenKalshiDown1, seenTickers,
                 skippedTickers, lastQuarterStartMs, cachedProxyBalanceUsd,
                 balanceFetchScheduled, balanceFetchTimeoutId, fetchInFlight>>

\* updatePositionSizeFromBalance: after BALANCE_FETCH_DELAY_MS the on-chain
\* balance b replaces position.size when it is at least 0.01
FcSettleDone(b) ==
  /\ fcPc = "settle"
  /\ position' = IF position # NoPos /\ b >= 1
                 THEN [position EXCEPT !.size = b] ELSE position
  /\ FcReturn
  /\ UNCHANGED <<notFC, envVars, fcDryRun, lastTicker, entryAttemptedTicker,
                 cycleDoneTicker, seenKalshiUp1, seenKalshiDown1, seenTickers,
                 skippedTickers, lastQuarterStartMs, cachedProxyBalanceUsd,
                 balanceFetchScheduled, balanceFetchTimeoutId, fetchInFlight,
                 fcEvent, fcHist>>

\* attempt < SELL_MAX_ATTEMPTS: the loop has another pass to make
attemptsLeft_Always(attempt) == TRUE
attemptsLeft_Never(attempt) == FALSE
attemptsLeft(attempt) == attempt < SELL_MAX_ATTEMPTS

\* one pass of the sell loop: balance read, sellPolymarketOrder, its outcome
FcSellResult(r) ==
  /\ fcPc = "sell"
  /\ IF r = "ok"
     THEN /\ cycleDoneTicker' = fcTicker
          /\ position' = NoPos
          /\ ledger' = clearMarketHoldings(ledger, position.conditionId)
          /\ bought' = clearMarketHoldings(bought, position.conditionId)
          /\ fcEvent' = [kind |-> "sold", ticker |-> fcTicker,
                         conditionId |-> position.conditionId]
          /\ fcHist' = [fcHist EXCEPT !.exitDue = FALSE, !.doneNow = TRUE]
          /\ FcReturn
     ELSE IF r = "err" /\ ~attemptsLeft(fcAttempt)
     THEN \* "Clearing position after max sell attempts"
          /\ cycleDoneTicker' = fcTicker
          /\ position' = NoPos
          /\ fcEvent' = [kind |-> "abandoned", ticker |-> fcTicker,
                         conditionId |-> position.conditionId]
          /\ fcHist' = [fcHist EXCEPT !.exitDue = position' # NoPos,
                                      !.doneNow = position' = NoPos]
          /\ UNCHANGED <<ledger, bought>>
          /\ FcReturn
     ELSE IF ~attemptsLeft(fcAttempt)
     THEN \* a null result on the last pass: the loop ends, position kept
          /\ UNCHANGED <<cycleDoneTicker, position, ledger, bought, fcEvent, fcHist>>
          /\ FcReturn
     ELSE /\ UNCHANGED <<cycleDoneTicker, position, ledger, bought, fcEvent, fcHist>>
          /\ FcCtl("sell", NoSnap, fcTicker, FALSE, NoBuy, fcAttempt + 1)
  /\ UNCHANGED <<notFC, slot, late, feedTicker, polyOn, fcDryRun, lastTicker,
                 entryAttemptedTicker, seenKalshiUp1, seenKalshiDown1, seenTickers,
                 skippedTickers, lastQuarterStartMs, cachedProxyBalanceUsd,
                 balanceFetchScheduled, balanceFetchTimeoutId, fetchInFlight>>

\* the setTimeout callback of ensureProxyBalanceScheduledOrFetched, due at
\* 5 minutes past the quarter it was armed in
FcBalanceTimerFires ==
  /\ balanceFetchTimeoutId
  /\ late \/ slot # lastQuarterStartMs
  /\ ~fetchInFlight
  /\ balanceFetchTimeoutId' = FALSE
  /\ fetchInFlight' = TRUE
  /\ UNCHANGED <<notFC, envVars, fcDryRun, position, lastTicker,
                 entryAttemptedTicker, cycleDoneTicker, seenKalshiUp1,
                 seenKalshiDown1, strategyBusy, seenTickers, skippedTickers,
                 lastQuarterStartMs, cachedProxyBalanceUsd, balanceFetchScheduled,
                 fcPc, fcSnap, fcTicker, fcNowLate, fcBuy, fcAttempt, fcEvent, fcHist>>

\* ... getPolymarketBalanceUsd().then(balance => ...)
FcBalanceFetchDone(b) ==
  /\ fetchInFlight
  /\ fetchInFlight' = FALSE
  /\ cachedProxyBalanceUsd' = IF b # NoBalance THEN b ELSE cachedProxyBalanceUsd
  /\ UNCHANGED <<notFC, envVars, fcDryRun, position, lastTicker,
                 entryAttemptedTicker, cycleDoneTicker, seenKalshiUp1,
                 seenKalshiDown1, strategyBusy, seenTickers, skippedTickers,
                 lastQuarterStartMs, balanceFetchScheduled, balanceFetchTimeoutId,
                 fcPc, fcSnap, fcTicker, fcNowLate, fcBuy, fcAttempt, fcEvent, fcHist>>

\* five minutes of the quarter have passed
ClockLate ==
  /\ ~late
  /\ late' = TRUE
  /\ UNCHANGED <<slot, feedTicker, polyOn, ledger, bought>>

\* the quarter-hour boundary
ClockNextSlot ==
  /\ slot < MaxSlots
  /\ slot' = slot + 1
  /\ late' = FALSE
  /\ UNCHANGED <<feedTicker, polyOn, ledger, bought>>

\* the feed re-runs discovery after a rollover and polls the open market
FeedRetarget ==
  /\ feedTicker < slot
  /\ feedTicker' = slot
  /\ UNCHANGED <<slot, late, polyOn, ledger, bought>>

\* a venue read: both asks, or nothing usable
Reads(asks) == {NoAsk} \cup [up : asks, down : asks]
\* the outcomes of a tick that differ in which read is missing
DroppedReads(asks) == {NoAsk, CHOOSE r \in [up : asks, down : asks] : TRUE}

\* the snapshots the follow-confidence strategy is fed: Kalshi asks below and
\* at the certain-outcome price on either side and one unvalidated value;
\* Polymarket asks equal on both sides, or one side buyable and the other low
FcKalshiReads ==
  {NoAsk} \cup {r \in [up : FcKalshiAsks, down : FcKalshiAsks] :
                  (r.up > 100 => r.down = 50) /\ r.down <= 100}
FcPolyReads ==
  {NoAsk} \cup {r \in [up : FcPolyAsks, down : FcPolyAsks] :
                  r.up = r.down \/ {r.up, r.down} = {50, 80}}

FCNext ==
  \/ \E k \in DroppedReads(FcKalshiAsks), pm \in DroppedReads(FcPolyAsks) :
       FcTickDropped(k, pm)
  \/ \E k \in FcKalshiReads, pm \in FcPolyReads : FcTick(k, pm)
  \/ \E b \in UsdBalanceResults, k \in FcKalshiReads, pm \in FcPolyReads :
       FcEnsureFetchDone(b, k, pm)
  \/ \E r \in BuyResults \cup {"throw"} : FcBuyResult(r)
  \/ \E b \in ShareBalances : FcSettleDone(b)
  \/ \E r \in SellResults : FcSellResult(r)
  \/ FcBalanceTimerFires
  \/ \E b \in UsdBalanceResults : FcBalanceFetchDone(b)
  \/ ClockLate /\ UNCHANGED <<notFC, fcVars>>
  \/ ClockNextSlot /\ UNCHANGED <<notFC, fcVars>>
  \/ FeedRetarget /\ UNCHANGED <<notFC, fcVars>>

(***************************************************************************)
(* Arbitrage strategy: checkArbAndPlaceOrders and its helpers in           *)
(* kalshi/bot.ts.  onPrices does not await an evaluation, so evaluations   *)
(* of successive ticks overlap at their awaits.                            *)
(***************************************************************************)
ARB_SUM_THRESHOLD == 92
ARB_SUM_LOW == 75
ARB_PRICE_BUFFER == 2
ARB_SIZE == 5
ARB_KALSHI_MIN == 5
ARB_POLY_MIN == 5
POLYMARKET_MIN_USD == 100           \* hundredths of a dollar

ArbKalshiAsks == {30, 50}           \* cents
ArbPolyAsks == {25, 42, 50}         \* hundredths
Legs == {"UP", "DOWN"}

NoPrice == -1                       \* getBestAskForToken returned null
NoArbEvent == [kind |-> "none", ticker |-> 0, leg |-> "NONE", conditionId |-> 0,
               polySold |-> FALSE, placements |-> 0, ask |-> NoPrice,
               price |-> NoPrice]

ArbInit ==
  /\ arbDryRun \in BOOLEAN
  /\ upArbDoneTickers = {}
  /\ downArbDoneTickers = {}
  /\ openArbPositions = << >>
  /\ arbInFlight = {}
  /\ arbAttempts = [tk \in Slots |-> [leg \in Legs |-> 0]]
  /\ arbEvent = NoArbEvent

\* sumUp = kUp + polyDown, sumDown = kDown + polyUp
arbSum(kCents, polyAsk) == FAdd(Dbl[kCents], Dbl[polyAsk])

\* Number.isFinite(sum) && sum >= ARB_SUM_LOW && sum < ARB_SUM_THRESHOLD
inRange(sum) == FGeq(sum, Dbl[ARB_SUM_LOW]) /\ FLess(sum, Dbl[ARB_SUM_THRESHOLD])

\* per Kalshi ask, the Polymarket asks of the opposite side with inRange(sum)
InRangePolyAsks[k \in ArbKalshiAsks] ==
  {pa \in ArbPolyAsks : inRange(arbSum(k, pa))}

\* per Kalshi ask, the Polymarket asks with Number.isFinite(sum) && sum < ARB_SUM_LOW
BelowLowPolyAsks[k \in ArbKalshiAsks] ==
  {pa \in ArbPolyAsks : FLess(arbSum(k, pa), Dbl[ARB_SUM_LOW])}

Max2(a, b) == IF a >= b THEN a ELSE b

\* Math.max(ARB_KALSHI_MIN, Math.round(ARB_SIZE))
kalshiContracts == Max2(ARB_KALSHI_MIN, ARB_SIZE)

\* Math.max(ARB_POLY_MIN, ARB_SIZE, Math.ceil(minUsd / polyPrice)) with
\* polyPrice = Math.min(1, polyAsk + ARB_PRICE_BUFFER)
polySize(polyAsk) ==
  LET polyPrice == IF polyAsk + ARB_PRICE_BUFFER < 100
                   THEN polyAsk + ARB_PRICE_BUFFER ELSE 100
      minShares == (POLYMARKET_MIN_USD + polyPrice - 1) \div polyPrice
  IN Max2(Max2(ARB_POLY_MIN, ARB_SIZE), minShares)

\* the Polymarket outcome a leg buys: leg 1 is Kalshi UP + Polymarket DOWN
PolyOutcome(leg) == IF leg = "UP" THEN "DOWN" ELSE "UP"

\* upArbDoneTickers.add(kalshiTicker) / downArbDoneTickers.add(kalshiTicker)
markDone_Forgets(done, tk) == done
markDone(done, tk) == done \cup {tk}

\* openArbPositions.delete(ticker)
deletePosition_Keeps(m, tk) == m
deletePosition(m, tk) == [x \in DOMAIN m \ {tk} |-> m[x]]
\* openArbPositions.set(ticker, pos)
setPosition(m, tk, pos) == [x \in DOMAIN m \cup {tk} |-> IF x = tk THEN pos ELSE m[x]]

\* onPrices -> checkArbAndPlaceOrders(p) that returns at its guard
ArbTickDropped(k, pmAsk) ==
  /\ k = NoAsk \/ pmAsk = NoAsk
  /\ UNCHANGED vars

\* if (!ARB_DRY_RUN) { placeOrder(...); placePolymarketOrder(...); ... }
\* else only the opportunity line is logged
placeUnlessDryRun_Always(dryRun, inFlight, x) == inFlight \cup {x}
placeUnlessDryRun(dryRun, inFlight, x) ==
  IF dryRun THEN inFlight ELSE inFlight \cup {x}

\* the entry branch of one leg: the attempt flag, then both orders dispatched
ArbEnter(tk, leg, c, size) ==
  LET done == IF leg = "UP" THEN upArbDoneTickers ELSE downArbDoneTickers
  IN IF tk \in done
     THEN /\ arbEvent' = [NoArbEvent EXCEPT !.kind = "refused", !.ticker = tk,
                                            !.leg = leg]
          /\ UNCHANGED <<upArbDoneTickers, downArbDoneTickers, arbAttempts,
                         arbInFlight>>
     ELSE /\ IF leg = "UP"
             THEN /\ upArbDoneTickers' = markDone(upArbDoneTickers, tk)
                  /\ UNCHANGED downArbDoneTickers
             ELSE /\ downArbDoneTickers' = markDone(downArbDoneTickers, tk)
                  /\ UNCHANGED upArbDoneTickers
          /\ arbAttempts' = [arbAttempts EXCEPT ![tk][leg] = @ + 1]
          /\ arbEvent' = NoArbEvent
          /\ arbInFlight' =
               placeUnlessDryRun(arbDryRun, arbInFlight,
                                 [pc |-> "orders", ticker |-> tk, leg |-> leg,
                                  conditionId |-> c, kalshiResult |-> "none",
                                  size |-> size, placements |-> 1])

\* onPrices -> checkArbAndPlaceOrders(p) past its guard, up to its first await
\* or its return: the exit test on an open position, then the UP leg, then
\* (only when the UP sum is out of the band) the DOWN leg
ArbTick(k, pmAsk) ==
  LET tk == feedTicker
      c == slot
      hasPos == tk \in DOMAIN openArbPositions
      pos == openArbPositions[tk]
      exitNow == hasPos /\ IF pos.leg = "UP"
                           THEN pmAsk.down \in BelowLowPolyAsks[k.up]
                           ELSE pmAsk.up \in BelowLowPolyAsks[k.down]
  IN /\ k # NoAsk /\ pmAsk # NoAsk
     /\ UNCHANGED <<notArb, envVars, arbDryRun>>
     /\ IF exitNow
        THEN \* exitArbPosition: delete, then sell on both venues
             /\ openArbPositions' = deletePosition(openArbPositions, tk)
             /\ arbInFlight' = arbInFlight \cup
                  {[pc |-> "exit", ticker |-> tk, leg |-> pos.leg,
                    conditionId |-> pos.polyTokenId.conditionId,
                    kalshiResult |-> "none", size |-> pos.polySize,
                    placements |-> 0]}
             /\ arbEvent' = [NoArbEvent EXCEPT !.kind = "exit_due", !.ticker = tk,
                                               !.leg = pos.leg]
             /\ UNCHANGED <<upArbDoneTickers, downArbDoneTickers, arbAttempts>>
        ELSE /\ UNCHANGED openArbPositions
             /\ IF pmAsk.down \in InRangePolyAsks[k.up]
                THEN ArbEnter(tk, "UP", c, polySize(pmAsk.down))
                ELSE IF pmAsk.up \in InRangePolyAsks[k.down]
                THEN ArbEnter(tk, "DOWN", c, polySize(pmAsk.up))
                ELSE /\ arbEvent' = NoArbEvent
                     /\ UNCHANGED <<upArbDoneTickers, downArbDoneTickers,
                                    arbAttempts, arbInFlight>>

ArbSettle_OnPolyAlone(x, kalshiResult, polyResult) ==
  /\ openArbPositions' =
       IF polyResult = "ok"
       THEN [tk \in DOMAIN openArbPositions \cup {x.ticker} |->
               IF tk = x.ticker
               THEN [leg |-> x.leg, kalshiCount |-> 5,
                     polyTokenId |-> [conditionId |-> x.conditionId,
                                      outcome |-> IF x.leg = "UP" THEN "DOWN" ELSE "UP"],
                     polySize |-> x.size]
               ELSE openArbPositions[tk]]
       ELSE openArbPositions
  /\ arbInFlight' = arbInFlight \ {x}

ArbSettle_Unwinds(x, kalshiResult, polyResult) ==
  /\ openArbPositions' =
       IF kalshiResult = "ok" /\ polyResult = "ok"
       THEN [tk \in DOMAIN openArbPositions \cup {x.ticker} |->
               IF tk = x.ticker
               THEN [leg |-> x.leg, kalshiCount |-> 5,
                     polyTokenId |-> [conditionId |-> x.conditionId,
                                      outcome |-> IF x.leg = "UP" THEN "DOWN" ELSE "UP"],
                     polySize |-> x.size]
               ELSE openArbPositions[tk]]
       ELSE openArbPositions
  /\ arbInFlight' =
       IF (kalshiResult = "ok") # (polyResult = "ok")
       THEN (arbInFlight \ {x}) \cup {[x EXCEPT !.pc = "exit", !.placements = 0]}
       ELSE arbInFlight \ {x}

ArbSettle_BeforeResults(x, kalshiResult, polyResult) ==
  /\ openArbPositions' =
       [tk \in DOMAIN openArbPositions \cup {x.ticker} |->
          IF tk = x.ticker
          THEN [leg |-> x.leg, kalshiCount |-> 5,
                polyTokenId |-> [conditionId |-> x.conditionId,
                                 outcome |-> IF x.leg = "UP" THEN "DOWN" ELSE "UP"],
                polySize |-> x.size]
          ELSE openArbPositions[tk]]
  /\ arbInFlight' = IF kalshiResult = "ok" /\ polyResult = "ok"
                    THEN arbInFlight \ {x} ELSE arbInFlight

\* what the evaluation x does once both venues answered the entry: the
\* position is recorded only if neither result is an error and Polymarket's
\* is not null
ArbSettle(x, kalshiResult, polyResult) ==
  /\ openArbPositions' =
       IF kalshiResult = "ok" /\ polyResult = "ok"
       THEN setPosition(openArbPositions, x.ticker,
                        [leg |-> x.leg,
                         kalshiCount |-> kalshiContracts,
                         polyTokenId |-> [conditionId |-> x.conditionId,
                                          outcome |-> PolyOutcome(x.leg)],
                         polySize |-> x.size])
       ELSE openArbPositions
  /\ arbInFlight' = arbInFlight \ {x}

\* await Promise.all([kPromise, pPromise]) resolves with the two results
ArbOrdersDone(x, kRes, pRes) ==
  /\ x.pc = "orders"
  /\ ledger' = placePolymarketOrder(ledger, pRes, x.conditionId,
                                    PolyOutcome(x.leg), x.size)
  /\ bought' = placePolymarketOrder(bought, pRes, x.conditionId,
                                    PolyOutcome(x.leg), x.size)
  /\ IF pRes = "fok"
     THEN \* retryPolymarketFokAfter200ms
          /\ arbInFlight' = (arbInFlight \ {x}) \cup
               {[x EXCEPT !.pc = "retry", !.kalshiResult = kRes]}
          /\ UNCHANGED openArbPositions
     ELSE ArbSettle(x, kRes, pRes)
  /\ arbEvent' = NoArbEvent
  /\ UNCHANGED <<notArb, slot, late, feedTicker, polyOn, arbDryRun,
                 upArbDoneTickers, downArbDoneTickers, arbAttempts>>

\* retryPrice = currentAsk != null ? Math.min(1, currentAsk + ARB_PRICE_BUFFER)
\* : 0.99, in hundredths
retryPrice(currentAsk) ==
  IF currentAsk # NoPrice
  THEN (IF currentAsk + ARB_PRICE_BUFFER < 100 THEN currentAsk + ARB_PRICE_BUFFER
        ELSE 100)
  ELSE 99

\* what getBestAskForToken can resolve to in the retry
RetryAsks == {50, NoPrice}

\* retryPolymarketFokAfter200ms resolves: after the delay getBestAskForToken
\* answered currentAsk and the second placePolymarketOrder answered pRes, or
\* getBestAskForToken threw and the evaluation ends rejected
ArbRetryDone(x, currentAsk, pRes) ==
  /\ x.pc = "retry"
  /\ ledger' = placePolymarketOrder(ledger, pRes, x.conditionId,
                                    PolyOutcome(x.leg), x.size)
  /\ bought' = placePolymarketOrder(bought, pRes, x.conditionId,
                                    PolyOutcome(x.leg), x.size)
  /\ ArbSettle(x, x.kalshiResult, pRes)
  /\ arbEvent' = IF pRes = "throw" THEN NoArbEvent
                 ELSE [NoArbEvent EXCEPT !.kind = "retried", !.ticker = x.ticker,
                                         !.leg = x.leg,
                                         !.placements = x.placements + 1,
                                         !.ask = currentAsk,
                                         !.price = retryPrice(currentAsk)]
  /\ UNCHANGED <<notArb, slot, late, feedTicker, polyOn, arbDryRun,
                 upArbDoneTickers, downArbDoneTickers, arbAttempts>>

\* exitArbPosition's Promise.all resolves; both results are only logged
ArbExitDone(x, kRes, pRes) ==
  /\ x.pc = "exit"
  /\ arbEvent' = [NoArbEvent EXCEPT !.kind = "exited", !.ticker = x.ticker,
                                    !.conditionId = x.conditionId,
                                    !.polySold = (pRes = "ok")]
  /\ arbInFlight' = arbInFlight \ {x}
  /\ UNCHANGED <<notArb, envVars, arbDryRun, upArbDoneTickers, downArbDoneTickers,
                 openArbPositions, arbAttempts>>

\* what placeOrder / placeSellOrder on Kalshi can resolve to
KalshiOrderResults == {"ok", "err"}

\* the feed hands over the next market's ticker; the order calls of the
\* market that closed have resolved by the time discovery names its successor
ArbFeedRetarget ==
  /\ arbInFlight = {}
  /\ FeedRetarget
  /\ UNCHANGED <<notArb, arbVars>>

ArbNext ==
  \/ \E k \in DroppedReads(ArbKalshiAsks), pm \in DroppedReads(ArbPolyAsks) :
       ArbTickDropped(k, pm)
  \/ \E k \in Reads(ArbKalshiAsks), pm \in Reads(ArbPolyAsks) : ArbTick(k, pm)
  \/ \E x \in arbInFlight, kRes \in KalshiOrderResults, pRes \in BuyResults :
       ArbOrdersDone(x, kRes, pRes)
  \/ \E x \in arbInFlight, a \in RetryAsks, pRes \in BuyResults : ArbRetryDone(x, a, pRes)
  \/ \E x \in arbInFlight : ArbRetryDone(x, NoPrice, "throw")
  \/ \E x \in arbInFlight, kRes \in KalshiOrderResults, pRes \in SellResults :
       ArbExitDone(x, kRes, pRes)
  \/ ClockNextSlot /\ UNCHANGED <<notArb, arbVars>>
  \/ ArbFeedRetarget

(***************************************************************************)
(* Dual price feed: startDualPriceMonitor and getDualPrices of             *)
(* dual-monitor.  A Kalshi ticker is named by the slot of its market; the  *)
(* Polymarket slug is computed from the wall clock when the fetch starts.  *)
(***************************************************************************)
FeedModes == {"pinned", "restart", "norestart"}

NoFetch == [kalshiTicker |-> 0, polySlot |-> 0]
NoSnapshot == [kalshiTicker |-> 0, kalshi |-> FALSE, polymarket |-> FALSE,
               polySlot |-> 0]

\* const useAutoRefresh = !options.kalshiTicker
useAutoRefresh == feedMode # "pinned"
\* restartOnQuarterHour as run.ts passes it (KALSHI_MONITOR_NO_RESTART unset)
restartOnQuarterHour == feedMode # "norestart"

\* current15mSlot() and slugForCurrent15m(): both read the wall clock
current15mSlot == slot
slugForCurrent15m == slot

\* startDualPriceMonitor up to its first await, or to setTimeout(poll, 0)
FeedInit ==
  /\ feedMode \in FeedModes
  /\ kalshiTicker = IF feedMode = "pinned" THEN 1 ELSE 0
  /\ lastSlot = 1
  /\ stopped = FALSE
  /\ pollInProgress = FALSE
  /\ feedPc = IF feedMode = "pinned" THEN "idle" ELSE "start_discover"
  /\ feedTimers = IF feedMode = "pinned" THEN 1 ELSE 0
  /\ feedEvent = "none"
  /\ spawnLog = << >>
  /\ feedFetch = NoFetch
  /\ delivered = NoSnapshot

\* what getBitcoinUpDownMarkets() can resolve to: the open market's ticker,
\* 0 for an empty list, -1 when the request throws
DiscoveryResults == {current15mSlot, 0, -1}

FeedFrame == UNCHANGED <<notFeed, envVars, feedMode>>

\* spawnAndExit(): releaseMonitorLock(); spawn(node, args, detached);
\* child.unref(); process.exit(0)
spawnAndExit_SpawnFirst == <<"spawn", "releaseMonitorLock", "exit">>
spawnAndExit == <<"releaseMonitorLock", "spawn", "exit">>

\* the discovery awaited by startDualPriceMonitor; an empty list throws
FeedStartDiscovered(m) ==
  /\ feedPc = "start_discover"
  /\ IF m > 0
     THEN kalshiTicker' = m /\ feedPc' = "idle" /\ feedTimers' = feedTimers + 1
     ELSE kalshiTicker' = kalshiTicker /\ feedPc' = "failed" /\ UNCHANGED feedTimers
  /\ UNCHANGED <<lastSlot, stopped, pollInProgress, feedFetch, delivered, feedEvent,
                 spawnLog>>
  /\ FeedFrame

\* getDualPrices called: Kalshi by the stored ticker, Polymarket by the slug
\* of the current wall-clock slot
startFetch(tk) == [kalshiTicker |-> tk, polySlot |-> slugForCurrent15m]

\* scheduleNext(startedAt): the timers pending after it
scheduleNext_Twice(timers) == timers + 2
scheduleNext_Always(timers) == timers + 1
scheduleNext(timers) == IF stopped THEN timers ELSE timers + 1

\* a timer fires and poll() runs to its first await or its return
FeedPoll ==
  /\ feedTimers > 0
  /\ feedTimers' = feedTimers - 1
  /\ IF pollInProgress
     THEN \* if (pollInProgress) return
          UNCHANGED <<lastSlot, pollInProgress, feedPc, feedFetch, feedEvent, spawnLog>>
     ELSE IF stopped
     THEN \* if (stopped) return; finally pollInProgress = false
          /\ feedPc' = "idle"
          /\ feedEvent' = "returned_stopped"
          /\ UNCHANGED <<lastSlot, pollInProgress, feedFetch, spawnLog>>
     ELSE IF useAutoRefresh /\ current15mSlot # lastSlot
     THEN /\ lastSlot' = current15mSlot
          /\ IF restartOnQuarterHour
             THEN \* spawnAndExit(): the process ends inside the call
                  /\ feedPc' = "respawn" /\ pollInProgress' = TRUE
                  /\ spawnLog' = spawnAndExit
             ELSE /\ feedPc' = "discover" /\ pollInProgress' = TRUE
                  /\ UNCHANGED spawnLog
          /\ UNCHANGED <<feedFetch, feedEvent>>
     ELSE /\ feedPc' = "fetch"
          /\ pollInProgress' = TRUE
          /\ feedFetch' = startFetch(kalshiTicker)
          /\ UNCHANGED <<lastSlot, feedEvent, spawnLog>>
  /\ UNCHANGED <<kalshiTicker, stopped, delivered>>
  /\ FeedFrame

\* the discovery awaited inside poll() after a rollover (no-restart mode)
FeedDiscovered(m) ==
  /\ feedPc = "discover"
  /\ IF m < 0
     THEN \* poll() rejects: finally clears the flag, nothing is rescheduled;
          \* the timer that called poll() ignores the promise
          /\ feedPc' = "failed"
          /\ pollInProgress' = FALSE
          /\ feedEvent' = "poll_rejected"
          /\ UNCHANGED <<kalshiTicker, feedFetch, feedTimers>>
     ELSE LET tk == IF m > 0 THEN m ELSE kalshiTicker
          IN /\ kalshiTicker' = tk
             /\ UNCHANGED feedEvent
             /\ IF stopped
                THEN \* scheduleNext returns at once: if (stopped) return
                     /\ feedPc' = "idle"
                     /\ pollInProgress' = FALSE
                     /\ feedTimers' = scheduleNext(feedTimers)
                     /\ UNCHANGED feedFetch
                ELSE /\ feedPc' = "fetch"
                     /\ feedFetch' = startFetch(tk)
                     /\ UNCHANGED <<pollInProgress, feedTimers>>
  /\ UNCHANGED <<lastSlot, stopped, delivered, spawnLog>>
  /\ FeedFrame

\* getDualPrices resolves: onPrices(dual), scheduleNext, finally
FeedFetched(kOk, pOk) ==
  /\ feedPc = "fetch"
  /\ pollInProgress' = FALSE
  /\ feedFetch' = NoFetch
  /\ feedPc' = "idle"
  /\ IF stopped
     THEN feedEvent' = "dropped_stopped" /\ UNCHANGED <<delivered, feedTimers>>
     ELSE /\ feedTimers' = scheduleNext(feedTimers)
          /\ feedEvent' = "delivered"
          /\ delivered' = [kalshiTicker |-> feedFetch.kalshiTicker,
                           kalshi |-> kOk, polymarket |-> pOk,
                           polySlot |-> IF pOk THEN feedFetch.polySlot ELSE 0]
  /\ UNCHANGED <<kalshiTicker, lastSlot, stopped, spawnLog>>
  /\ FeedFrame

\* the cancel handle startDualPriceMonitor returned: () => { stopped = true }
FeedStop ==
  /\ feedPc \in {"idle", "discover", "fetch"}
  /\ ~stopped
  /\ stopped' = TRUE
  /\ UNCHANGED <<kalshiTicker, lastSlot, pollInProgress, feedPc, feedTimers, feedFetch,
                 delivered, feedEvent, spawnLog>>
  /\ FeedFrame

\* the process spawnAndExit() started runs startDualPriceMonitor afresh
FeedRespawned ==
  /\ feedPc = "respawn"
  /\ kalshiTicker' = 0
  /\ lastSlot' = current15mSlot
  /\ stopped' = FALSE
  /\ pollInProgress' = FALSE
  /\ feedPc' = "start_discover"
  /\ feedTimers' = 0
  /\ feedFetch' = NoFetch
  /\ spawnLog' = << >>
  /\ UNCHANGED <<delivered, feedEvent>>
  /\ FeedFrame

FeedNext ==
  \/ \E m \in DiscoveryResults : FeedStartDiscovered(m)
  \/ FeedPoll
  \/ \E m \in DiscoveryResults : FeedDiscovered(m)
  \/ \E kOk \in BOOLEAN, pOk \in BOOLEAN : FeedFetched(kOk, pOk)
  \/ FeedStop
  \/ FeedRespawned
  \/ ClockNextSlot /\ UNCHANGED <<notFeed, feedVars>>

(***************************************************************************)
(* Startup: main() of monitor/run.ts (the arbitrage monitor) and of the    *)
(* Kalshi1Poly entry point, after acquireMonitorLock().  Balances are in   *)
(* hundredths of a dollar; NoBalanceRead is getPolymarketBalanceUsd's null. *)
(***************************************************************************)
MIN_BALANCE_USD == 500
NoBalanceRead == -1
EntryPoints == {"run", "kalshi1poly"}

NoStart == [entry |-> "none", kalshiCents |-> 0, polyUsd |-> 0, pc |-> "none",
            warned |-> FALSE]
StartCases == [entry : EntryPoints,
               kalshiCents : {0, 499, 500, 501, 1000},
               polyUsd : {NoBalanceRead, 0, 499, 500, 501},
               pc : {"check"}, warned : {FALSE}]

\* checkBalancesOrExit(): both entry points log the same line; run.ts then
\* calls process.exit(1), the Kalshi1Poly entry point has the call commented out
checkBalancesOrExit ==
  /\ startCase.pc = "check"
  /\ LET minCents == MIN_BALANCE_USD
         kalshiOk == startCase.kalshiCents >= minCents
         polyConfigured == startCase.polyUsd # NoBalanceRead
         polyOk == ~polyConfigured \/ startCase.polyUsd >= MIN_BALANCE_USD
         below == ~kalshiOk \/ ~polyOk
     IN startCase' = [startCase EXCEPT
                        !.warned = below,
                        !.pc = IF below /\ startCase.entry = "run"
                               THEN "exited" ELSE "start_feed"]
  /\ UNCHANGED <<lockVars, envVars, fcVars, arbVars, feedVars, exitCase, ledgerIO>>

\* main() goes on: warm the clients, await startDualPriceMonitor(...)
StartMonitor ==
  /\ startCase.pc = "start_feed"
  /\ startCase' = [startCase EXCEPT !.pc = "polling"]
  /\ UNCHANGED <<lockVars, envVars, fcVars, arbVars, feedVars, exitCase, ledgerIO>>

StartNext ==
  \/ checkBalancesOrExit
  \/ StartMonitor

(***************************************************************************)
(* The ledger file between two processes: the engine's addHolding and the  *)
(* clearMarketHoldings of the auto-redeem script, which runs as a process  *)
(* of its own.  Each call reads the whole file, changes its copy and       *)
(* writes the whole file; the read and the write are separate system       *)
(* calls, so the other process can run between them.                       *)
(***************************************************************************)
MaxLedgerWrites == MaxProcs
LedgerTokens == {"UP", "DOWN"}

NoLedgerIO == [on |-> FALSE, enginePc |-> "idle", engineBuf |-> << >>,
               engineBuy |-> NoBuy, redeemPc |-> "idle", redeemBuf |-> << >>,
               redeemId |-> 0, writes |-> 0]
LedgerIdle == [NoLedgerIO EXCEPT !.on = TRUE]

\* addHolding(conditionId, tokenId, size) after a buy in the open market:
\* const holdings = loadHoldings()
EngineLoadHoldings(t) ==
  /\ ledgerIO.on /\ ledgerIO.enginePc = "idle"
  /\ ledgerIO.writes < MaxLedgerWrites
  /\ ledgerIO' = [ledgerIO EXCEPT
                    !.enginePc = "loaded", !.engineBuf = ledger,
                    !.engineBuy = [side |-> t, size |-> KALSHI_1_POLY_SIZE,
                                   conditionId |-> slot]]
  /\ UNCHANGED <<notLedger, envVars>>

\* holdings[conditionId][tokenId] = current + amount; saveHoldings(holdings)
EngineSaveHoldings ==
  /\ ledgerIO.on /\ ledgerIO.enginePc = "loaded"
  /\ LET b == ledgerIO.engineBuy
     IN /\ ledger' = addHolding(ledgerIO.engineBuf, b.conditionId, b.side, b.size)
        /\ bought' = addHolding(bought, b.conditionId, b.side, b.size)
  /\ ledgerIO' = [ledgerIO EXCEPT
                    !.enginePc = "idle", !.engineBuf = << >>, !.engineBuy = NoBuy,
                    !.writes = @ + 1]
  /\ UNCHANGED <<notLedger, slot, late, feedTicker, polyOn>>

\* checkAndRedeemPositions found market c resolved and redeemed it (or lost):
\* clearMarketHoldings(c) begins, const holdings = loadHoldings()
RedeemLoadHoldings(c) ==
  /\ ledgerIO.on /\ ledgerIO.redeemPc = "idle"
  /\ c < slot
  /\ c \in DOMAIN ledger
  /\ ledgerIO' = [ledgerIO EXCEPT
                    !.redeemPc = "loaded", !.redeemBuf = ledger, !.redeemId = c]
  /\ UNCHANGED <<notLedger, envVars>>

\* delete holdings[conditionId]; saveHoldings(holdings)
RedeemSaveHoldings ==
  /\ ledgerIO.on /\ ledgerIO.redeemPc = "loaded"
  /\ ledger' = clearMarketHoldings(ledgerIO.redeemBuf, ledgerIO.redeemId)
  /\ bought' = clearMarketHoldings(bought, ledgerIO.redeemId)
  /\ ledgerIO' = [ledgerIO EXCEPT
                    !.redeemPc = "idle", !.redeemBuf = << >>, !.redeemId = 0]
  /\ UNCHANGED <<notLedger, slot, late, feedTicker, polyOn>>

LedgerNext ==
  \/ \E t \in LedgerTokens : EngineLoadHoldings(t)
  \/ EngineSaveHoldings
  \/ \E c \in 1..MaxSlots : RedeemLoadHoldings(c)
  \/ RedeemSaveHoldings
  \/ ClockNextSlot /\ UNCHANGED <<notLedger, ledgerIO>>

(***************************************************************************)
(* The specifications.  Each runs one component; the configuration of the  *)
(* components it leaves alone is held at one value.                        *)
(***************************************************************************)
Init == /\ LockInit /\ EnvInit /\ FcInit /\ ArbInit /\ FeedInit
        /\ exitCase \in ExitCases \cup {NoCase}
        /\ startCase \in StartCases \cup {NoStart}
        /\ ledgerIO \in {NoLedgerIO, LedgerIdle}

\* the configuration a component that does not run is held at
EnvAtRest == ~late /\ polyOn
FcAtRest == fcDryRun
ArbAtRest == arbDryRun
FeedAtRest == feedMode = "pinned"
ExitAtRest == exitCase = NoCase
StartAtRest == startCase = NoStart

LedgerAtRest == ledgerIO = NoLedgerIO

OthersAtRest == ExitAtRest /\ StartAtRest /\ LedgerAtRest
LockSpecInit == Init /\ EnvAtRest /\ FcAtRest /\ ArbAtRest /\ FeedAtRest /\ OthersAtRest
FCSpecInit == Init /\ ArbAtRest /\ FeedAtRest /\ OthersAtRest
ArbSpecInit == Init /\ ~late /\ FcAtRest /\ FeedAtRest /\ OthersAtRest
FeedSpecInit == Init /\ EnvAtRest /\ FcAtRest /\ ArbAtRest /\ OthersAtRest
ExitSpecInit ==
  /\ Init /\ EnvAtRest /\ FcAtRest /\ ArbAtRest /\ FeedAtRest
  /\ ~ExitAtRest /\ StartAtRest /\ LedgerAtRest
StartSpecInit ==
  /\ Init /\ EnvAtRest /\ FcAtRest /\ ArbAtRest /\ FeedAtRest
  /\ ExitAtRest /\ ~StartAtRest /\ LedgerAtRest

SpecLock == LockSpecInit /\ [][LockNext]_vars
SpecFC == FCSpecInit /\ [][FCNext]_vars
SpecArb == ArbSpecInit /\ [][ArbNext]_vars
SpecFeed == FeedSpecInit /\ [][FeedNext]_vars
SpecExit == ExitSpecInit /\ [][ExitEval]_vars
SpecStart == StartSpecInit /\ [][StartNext]_vars
\* every awaited balance read and sellPolymarketOrder of the sell loop settles
SpecFCLive == SpecFC /\ WF_vars(\E r \in SellResults : FcSellResult(r))

\* every awaited venue call of an evaluation eventually returns or fails
FcAwaitResolves ==
  \/ \E b \in UsdBalanceResults, k \in FcKalshiReads \ {NoAsk},
        pm \in FcPolyReads \ {NoAsk} : FcEnsureFetchDone(b, k, pm)
  \/ \E r \in BuyResults \cup {"throw"} : FcBuyResult(r)
  \/ \E b \in ShareBalances : FcSettleDone(b)
  \/ \E r \in SellResults : FcSellResult(r)
SpecFCFair == SpecFC /\ WF_vars(FcAwaitResolves)

LedgerSpecInit ==
  /\ Init /\ EnvAtRest /\ FcAtRest /\ ArbAtRest /\ FeedAtRest
  /\ ExitAtRest /\ StartAtRest /\ ~LedgerAtRest
SpecLedger == LedgerSpecInit /\ [][LedgerNext]_vars
\* every awaited discovery and getDualPrices settles, every armed timer fires
SpecFeedLive ==
  /\ SpecFeed
  /\ WF_vars(FeedPoll)
  /\ WF_vars(\E m \in DiscoveryResults : FeedDiscovered(m))
  /\ WF_vars(\E kOk \in BOOLEAN, pOk \in BOOLEAN : FeedFetched(kOk, pOk))

\* C1: no two processes have both returned from acquire() and are both
\* still alive and trading.
C1_SingleLiveInstance ==
  \A p, q \in Procs : (p # q /\ lpc[p] = "running") => lpc[q] # "running"

\* C2: contention is resolved by takeover: a process never leaves acquire()
\* by refusing to start; when it leaves acquire() by its own step it has
\* returned and the lock file holds its own pid.
C2_TakeoverNeverRefuses ==
  [][\A p \in Procs :
       (lpc[p] \in AcquirePcs /\ lpc'[p] \notin AcquirePcs /\ lpc'[p] # "killed")
         => (lpc'[p] = "running" /\ lockFile' = p)]_vars

\* C3: the ledger quantity of every (settlement id, token) equals the summed
\* sizes of the confirmed buys of that token since the entry was last absent.
C3_LedgerEqualsConfirmedBuys == ledger = bought

\* C4: after a follow-confidence sell succeeded, the ledger has no entry for
\* the settlement id of the position that was bought and sold: the key is
\* absent, not kept with an empty or zero token map.
C4_SoldLeavesNoLedgerEntry ==
  fcEvent.kind = "sold" => fcEvent.conditionId \notin DOMAIN ledger

C4_Witness ==
  /\ fcEvent.kind = "sold"
  /\ position = NoPos
  /\ fcEvent.conditionId \notin DOMAIN ledger

\* C5: when a follow-confidence exit has ended, by a successful sell or by
\* abandonment after the last failed attempt, the ticker is cycle-done and
\* the ledger entry of the position's settlement id is removed.
C5_ExitEndClearsLedger ==
  fcEvent.kind \in {"sold", "abandoned"}
    => /\ cycleDoneTicker = fcEvent.ticker
       /\ fcEvent.conditionId \notin DOMAIN ledger

\* C6: after an arbitrage exit whose Polymarket sell succeeded, the ledger has
\* no entry for the settlement id the arbitrage buy was booked under.
C6_ArbExitClearsLedger ==
  (arbEvent.kind = "exited" /\ arbEvent.polySold)
    => arbEvent.conditionId \notin DOMAIN ledger

\* C7: a tick whose snapshot has an ask outside its valid range (or a missing
\* read) leaves the follow-confidence strategy's flags, position and the ledger
\* as they were and starts no buy and no sell.
C7_BadSnapshotDiscarded ==
  [][\A k \in FcKalshiReads, pm \in FcPolyReads :
       (~allPricesReal(k, pm) /\ (FcTick(k, pm) \/ FcTickDropped(k, pm)))
         => /\ UNCHANGED <<entryAttemptedTicker, cycleDoneTicker, seenKalshiUp1,
                           seenKalshiDown1, skippedTickers, position, ledger>>
            /\ fcPc' \notin {"buy1", "sell"}]_vars

\* C8: a snapshot handed to the strategy callback with both reads present
\* carries Kalshi prices and Polymarket prices of the same 15-minute slot.
C8_SnapshotSameSlot ==
  (delivered.kalshi /\ delivered.polymarket)
    => delivered.kalshiTicker = delivered.polySlot

\* C9: each leg of each ticker is entered at most once: after its attempt
\* flag is set, no later tick dispatches another order pair for it.
C9_OneAttemptPerLeg ==
  \A tk \in Slots, leg \in Legs : arbAttempts[tk][leg] <= 1

\* a later tick found the leg's sum in the band again and was turned away
C9_Witness ==
  /\ arbEvent.kind = "refused"
  /\ arbAttempts[arbEvent.ticker][arbEvent.leg] = 1
  /\ arbEvent.ticker \in (IF arbEvent.leg = "UP" THEN upArbDoneTickers
                          ELSE downArbDoneTickers)

\* C10: the band is [ARB_SUM_LOW, ARB_SUM_THRESHOLD) on the sum of the two
\* asks: a tick enters a leg only if the leg's sum is at least low and below
\* high, and exits an open position only if its leg's sum is below low.
C10_BandHalfOpen ==
  [][\A k \in Reads(ArbKalshiAsks), pm \in Reads(ArbPolyAsks) :
       ArbTick(k, pm)
         => /\ upArbDoneTickers' # upArbDoneTickers
                 => (ARB_SUM_LOW <= k.up + pm.down
                     /\ k.up + pm.down < ARB_SUM_THRESHOLD)
            /\ downArbDoneTickers' # downArbDoneTickers
                 => (ARB_SUM_LOW <= k.down + pm.up
                     /\ k.down + pm.up < ARB_SUM_THRESHOLD)
            /\ openArbPositions' # openArbPositions
                 => (IF openArbPositions[feedTicker].leg = "UP"
                     THEN k.up + pm.down < ARB_SUM_LOW
                     ELSE k.down + pm.up < ARB_SUM_LOW)]_vars

\* C11: the retry of the Polymarket buy is the second and last placement of
\* the entry, and it is priced at the best ask read after the delay plus
\* ARB_PRICE_BUFFER (capped at 1).
C11_RetryOnceAtCurrentAsk ==
  arbEvent.kind = "retried"
    => /\ arbEvent.placements = 2
       /\ \A x \in arbInFlight :
            ~(x.ticker = arbEvent.ticker /\ x.leg = arbEvent.leg
              /\ x.pc \in {"orders", "retry"})
       /\ arbEvent.ask # NoPrice
       /\ arbEvent.price = (IF arbEvent.ask + ARB_PRICE_BUFFER < 100
                            THEN arbEvent.ask + ARB_PRICE_BUFFER ELSE 100)


\* C12: a ticker whose first evaluated snapshot showed venue A's UP or DOWN
\* ask at or above 1.00 is marked skipped, and no follow-confidence buy order
\* is ever in flight for it.
C12_SkippedTickerNeverBought ==
  \A t \in fcHist.firstCertain :
    /\ t \in skippedTickers
    /\ ~(fcPc \in {"buy1", "buy2"} /\ fcTicker = t)
    /\ ~(fcEvent.kind = "bought" /\ fcEvent.ticker = t)

\* a later tick of a ticker that was certain at first sight is turned away
C12_Witness ==
  /\ fcEvent.kind = "skipped"
  /\ fcEvent.ticker \in fcHist.firstCertain
  /\ fcHist.certUp /\ ~fcHist.certDown
  /\ fcPc = "idle"

C14_OneSidePerCycle ==
  \A a \in fcHist.tried, b \in fcHist.tried : a = b

\* C15: once a ticker's position has been closed (its cycle marked done), no
\* follow-confidence buy order is in flight for that ticker again; and the
\* position, the cycle-done mark and the seen-at-certainty flags always belong
\* to the ticker evaluated last, so a ticker change starts them afresh.
C15_OneCyclePerTicker ==
  /\ (fcPc \in {"buy1", "buy2"} /\ fcHist.of = fcTicker) => ~fcHist.doneNow
  /\ cycleDoneTicker \in {0, lastTicker}
  /\ position # NoPos => entryAttemptedTicker = lastTicker
  /\ seenKalshiUp1 => (fcHist.of = lastTicker /\ fcHist.certUp)
  /\ seenKalshiDown1 => (fcHist.of = lastTicker /\ fcHist.certDown)

\* an entry that was due is refused because the ticker's cycle is done
C15_Witness ==
  /\ fcEvent.kind = "cycle_done"
  /\ fcEvent.ticker = fcHist.of
  /\ fcHist.doneNow
  /\ position = NoPos
  /\ fcPc = "idle"

\* C16: while a position is held, the exit is triggered on a tick exactly when
\* the held side's venue-B ask is strictly below polySellBelow minus the range
\* buffer (venue A's ask for the held side at or above 1.00) or strictly below
\* polySellBelow (otherwise).
C16_ExitExactlyBelowThreshold ==
  exitCase.exit \in {"yes", "no"}
    => (exitCase.exit = "yes"
          <=> exitCase.currentPrice
                < (IF exitCase.kalshiSameSide >= 100
                   THEN exitCase.sellBelow - exitCase.rangeBuffer
                   ELSE exitCase.sellBelow))

C19_OneEvaluationAtATime ==
  /\ strategyBusy <=> fcPc # "idle"
  /\ ~fcHist.overlap

\* an evaluation awaiting its retry while the feed already polls the next ticker
C19_Witness ==
  /\ strategyBusy
  /\ fcPc = "buy2"
  /\ feedTicker # fcTicker
  /\ ~fcHist.overlap

\* C20: at most one poll timer is pending, a timer is pending only while no
\* poll is in progress (so a poll never starts before the previous one has
\* finished), and pollInProgress is set exactly while a poll is running.
C20_NoOverlappingPolls ==
  /\ feedTimers <= 1
  /\ feedTimers = 1 => (~pollInProgress /\ feedPc = "idle")
  /\ pollInProgress <=> feedPc \in {"discover", "fetch", "respawn"}

\* a poll is awaiting its venue reads after an earlier poll delivered a
\* snapshot and re-armed the timer that started this one
C20_Witness ==
  /\ feedPc = "fetch"
  /\ pollInProgress
  /\ feedTimers = 0
  /\ delivered # NoSnapshot

\* C21: once the cancel handle has been invoked no timer is armed and no venue
\* read (discovery, price fetch) is started, and a timer that fires afterwards
\* only returns.
C21_NothingStartsAfterCancel ==
  [][stopped => /\ feedTimers' <= feedTimers
                /\ feedPc' \in {"discover", "fetch", "respawn"} => feedPc' = feedPc
                /\ feedFetch' \in {feedFetch, NoFetch}]_vars

\* the timer that was armed before the cancel has fired and returned
C21_Witness ==
  /\ stopped
  /\ feedEvent = "returned_stopped"
  /\ feedTimers = 0
  /\ feedPc = "idle" /\ ~pollInProgress

\* C22: a poll whose venue reads are in flight when the cancel handle is
\* invoked still hands its snapshot to onPrices once the reads return.
C22_InFlightTickDelivered ==
  [][(feedPc = "fetch" /\ stopped /\ feedPc' # "fetch")
       => feedEvent' = "delivered"]_vars

\* C23: the process re-execs on a slot rollover only in auto-discovery mode
\* with restart-on-rollover (never with a pinned ticker, whatever the option
\* says); it then releases the lock, spawns the child and exits, in that
\* order, and the rollover tick starts no venue read and delivers no snapshot.
C23_RespawnOnlyAutoRestart ==
  [][(spawnLog' # spawnLog /\ spawnLog' # << >>)
       => /\ useAutoRefresh /\ restartOnQuarterHour
          /\ feedMode # "pinned"
          /\ lastSlot # current15mSlot
          /\ spawnLog' = <<"releaseMonitorLock", "spawn", "exit">>
          /\ delivered' = delivered
          /\ feedEvent' = feedEvent
          /\ feedFetch' = NoFetch
          /\ feedTimers' < feedTimers]_vars

\* the rollover tick of an auto-discovery feed has re-exec'd the process
C23_Witness ==
  /\ feedMode = "restart"
  /\ feedPc = "respawn"
  /\ spawnLog # << >>
  /\ lastSlot = current15mSlot

\* C24: in auto-discovery mode without restart-on-rollover, a rollover tick
\* that re-runs discovery is followed by a scheduled next tick, whatever the
\* discovery returned, unless the feed was cancelled.
C24_RolloverKeepsPolling ==
  (feedMode = "norestart" /\ feedPc = "discover") ~> (feedTimers > 0 \/ stopped)

\* C25: no failure of an awaited venue operation escapes as an uncaught
\* exception or an unhandled rejection; here: a poll never ends by rejecting.
C25_NoFailureEscapes ==
  feedEvent # "poll_rejected"

\* C26: a balance below the configured minimum at startup, on either venue,
\* is logged as a warning and the engine still starts the price feed; it
\* never exits because of the low balance.
C26_LowBalanceOnlyWarns ==
  startCase.warned => startCase.pc \in {"start_feed", "polling"}

C27_FcWitness ==
  /\ fcDryRun
  /\ fcHist.evaluated # {} /\ fcHist.firstCertain # {}
  /\ fcPc = "idle"

\* C28: on a tick on which no arbitrage exit fires, each leg whose sum is in
\* [low, high) and whose attempt flag is not set for the ticker is attempted
\* on that tick, whatever the other leg's sum and flag are.
C28_EachDueLegAttempted ==
  [][\A k \in Reads(ArbKalshiAsks), pm \in Reads(ArbPolyAsks) :
       (ArbTick(k, pm) /\ openArbPositions' = openArbPositions)
         => /\ (pm.down \in InRangePolyAsks[k.up]
                  /\ feedTicker \notin upArbDoneTickers)
                 => /\ feedTicker \in upArbDoneTickers'
                    /\ arbAttempts'[feedTicker]["UP"] = arbAttempts[feedTicker]["UP"] + 1
            /\ (pm.up \in InRangePolyAsks[k.down]
                  /\ feedTicker \notin downArbDoneTickers)
                 => /\ feedTicker \in downArbDoneTickers'
                    /\ arbAttempts'[feedTicker]["DOWN"]
                         = arbAttempts[feedTicker]["DOWN"] + 1]_vars

\* C29: both orders of an arbitrage entry are dispatched on the tick, before
\* either result is consumed, and the leg's position is recorded only by the
\* step that has received both results (the retry's included).
C29_PositionAfterBothResults ==
  /\ [](\A x \in arbInFlight :
          /\ x.pc = "orders" => (x.kalshiResult = "none" /\ x.placements = 1)
          /\ x.pc \in {"orders", "retry"}
               => ~(/\ x.ticker \in DOMAIN openArbPositions
                    /\ openArbPositions[x.ticker].leg = x.leg))
  /\ [][\A tk \in Slots :
          (/\ tk \in DOMAIN openArbPositions'
           /\ tk \notin DOMAIN openArbPositions
                \/ openArbPositions'[tk] # openArbPositions[tk])
            => \E x \in arbInFlight \ arbInFlight' :
                 /\ x.pc \in {"orders", "retry"}
                 /\ x.ticker = tk /\ x.leg = openArbPositions'[tk].leg]_vars

\* both results of an entry were received and the position was recorded
C29_Witness ==
  /\ arbInFlight = {}
  /\ \E tk \in DOMAIN openArbPositions :
       arbAttempts[tk][openArbPositions[tk].leg] = 1

\* C30 as stated: when exactly one leg of an entry's order pair fails while
\* the other succeeds, no further order is sent for that attempt: nothing
\* stays or comes in flight for it and no position changes.
C30_NoFurtherOrder ==
  [][\A x \in arbInFlight \ arbInFlight' :
       x.pc \in {"orders", "retry"}
         => LET rest == arbInFlight' \ arbInFlight
                polyFilled == bought' # bought
                recorded == openArbPositions' # openArbPositions
                oneFailed ==
                  \/ \E y \in rest : y.pc = "retry" /\ y.kalshiResult = "ok"
                  \/ rest = {} /\ polyFilled /\ ~recorded
                  \/ x.pc = "retry" /\ x.kalshiResult = "ok" /\ ~polyFilled
            IN oneFailed => (rest = {} /\ ~recorded)]_vars

\* C30 amended: when exactly one leg fails while the other succeeds, the
\* failed venue-A order is not resubmitted and the filled leg is not sold,
\* rolled back or hedged; the only further order of the attempt is the single
\* venue-B retry after a fill-or-kill error of the first venue-B placement.
C30_PartialFailureNotUnwound ==
  [][\A x \in arbInFlight \ arbInFlight' :
       x.pc \in {"orders", "retry"}
         => LET rest == arbInFlight' \ arbInFlight
                polyFilled == bought' # bought
                recorded == openArbPositions' # openArbPositions
            IN /\ rest \subseteq {[x EXCEPT !.pc = "retry", !.kalshiResult = k] :
                                    k \in KalshiOrderResults}
               /\ rest # {} => (x.pc = "orders" /\ x.placements = 1
                                /\ ~polyFilled /\ ~recorded)
               /\ recorded => /\ polyFilled
                              /\ x.pc = "retry" => x.kalshiResult = "ok"
                              /\ x.ticker \in DOMAIN openArbPositions'
                              /\ openArbPositions'[x.ticker].leg = x.leg
               /\ upArbDoneTickers' = upArbDoneTickers
               /\ downArbDoneTickers' = downArbDoneTickers
               /\ arbAttempts' = arbAttempts]_vars

\* the retry's placement filled on Polymarket after the Kalshi order of the
\* only attempt so far had failed: nothing is in flight, no position exists
C30_Witness ==
  /\ arbEvent.kind = "retried"
  /\ bought # << >>
  /\ DOMAIN openArbPositions = {}
  /\ arbInFlight = {}
  /\ \A tk \in Slots : arbAttempts[tk]["UP"] + arbAttempts[tk]["DOWN"] <= 1

\* C31: the step that ends an entry attempt records the attempt's ArbPosition
\* if and only if the venue-A order and the venue-B order (the retry's result
\* when there was one) both returned success; otherwise the attempt leaves
\* the positions as they were.
C31_PositionIffBothSucceeded ==
  [][\A x \in arbInFlight \ arbInFlight' :
       LET recorded == /\ x.ticker \in DOMAIN openArbPositions'
                       /\ openArbPositions'[x.ticker].leg = x.leg
                       /\ openArbPositions'[x.ticker].polySize = x.size
       IN /\ \A kRes \in KalshiOrderResults, pRes \in BuyResults :
               (ArbOrdersDone(x, kRes, pRes) /\ pRes # "fok")
                 => /\ recorded <=> (kRes = "ok" /\ pRes = "ok")
                    /\ ~recorded => openArbPositions' = openArbPositions
          /\ \A a \in RetryAsks, pRes \in BuyResults \cup {"throw"} :
               ArbRetryDone(x, a, pRes)
                 => /\ recorded <=> (x.kalshiResult = "ok" /\ pRes = "ok")
                    /\ ~recorded => openArbPositions' = openArbPositions]_vars

\* an attempt whose first venue-B placement was not filled has ended with a
\* position: the venue-A order and the retry both succeeded
C31_Witness ==
  /\ arbEvent.kind = "retried"
  /\ arbInFlight = {}
  /\ arbEvent.ticker \in DOMAIN openArbPositions
  /\ openArbPositions[arbEvent.ticker].leg = arbEvent.leg

\* C32: a tick that finds an open ArbPosition whose leg's sum is below low
\* removes the position and dispatches one sell per venue (one exit pair),
\* attempts no entry on that tick, and the step that receives the sells'
\* results sends nothing more and leaves the positions alone.
C32_ExitOnceNoRetry ==
  /\ [](arbEvent.kind = "exit_due"
          => /\ arbEvent.ticker \notin DOMAIN openArbPositions
             /\ \E y \in arbInFlight : /\ y.pc = "exit"
                                        /\ y.ticker = arbEvent.ticker
                                        /\ y.leg = arbEvent.leg)
  /\ [][LET tk == feedTicker
             exits == {y \in arbInFlight' \ arbInFlight : y.pc = "exit"}
             removed == tk \in DOMAIN openArbPositions /\ tk \notin DOMAIN openArbPositions'
         IN /\ removed
                 => /\ exits = {[pc |-> "exit", ticker |-> tk,
                                 leg |-> openArbPositions[tk].leg,
                                 conditionId |-> openArbPositions[tk].polyTokenId.conditionId,
                                 kalshiResult |-> "none",
                                 size |-> openArbPositions[tk].polySize,
                                 placements |-> 0]}
                    /\ arbInFlight' = arbInFlight \cup exits
                    /\ arbAttempts' = arbAttempts
                    /\ upArbDoneTickers' = upArbDoneTickers
                    /\ downArbDoneTickers' = downArbDoneTickers
            /\ exits # {} => removed
            /\ \A x \in arbInFlight \ arbInFlight' :
                 x.pc = "exit" => /\ arbInFlight' = arbInFlight \ {x}
                                  /\ openArbPositions' = openArbPositions
                                  /\ arbAttempts' = arbAttempts]_vars

\* the sells of an exit have returned, the Polymarket one failed: nothing is
\* in flight and the position is gone
C32_Witness ==
  /\ arbEvent.kind = "exited" /\ ~arbEvent.polySold
  /\ arbInFlight = {}
  /\ arbEvent.ticker \notin DOMAIN openArbPositions

\* C33: arbitrage evaluations never overlap: no evaluation begins while an
\* earlier one is still awaiting its order results, so at most one
\* evaluation is awaiting results at any time.
C33_ArbEvaluationsSequential ==
  Cardinality(arbInFlight) <= 1

\* C34: eligibility latches on every snapshot of the slot: once a snapshot of
\* the current, non-skipped ticker showed venue A's ask for a side at or
\* above 1.00, that side's flag is set on every later tick of the ticker.
C34_EligibilityLatches ==
  (fcPc = "idle" /\ fcHist.of = lastTicker /\ lastTicker \notin skippedTickers)
    => /\ fcHist.certUp => seenKalshiUp1
       /\ fcHist.certDown => seenKalshiDown1

\* C35: the follow-confidence position is set only after a buy returned
\* success, no buy is in flight while a position is open, and a position is
\* cleared only by a confirmed sell or by exhausting the sell retry ceiling.
C35_PositionLifecycle ==
  [][/\ (position = NoPos /\ position' # NoPos)
          => (fcPc \in {"buy1", "buy2"} /\ fcEvent'.kind = "bought")
     /\ position # NoPos => fcPc' \notin {"buy1", "buy2"}
     /\ (position # NoPos /\ position' = NoPos)
          => /\ fcPc = "sell"
             /\ fcEvent'.kind \in {"sold", "abandoned"}
             /\ fcEvent'.conditionId = position.conditionId]_vars

\* C36: no balance query is awaited inside an evaluation: a buy sized from
\* the balance is decided in the step that began the evaluation, on a cached
\* balance that was already there when the evaluation began.
C36_BalanceFetchedBeforeEvaluation ==
  [][LET nowLate == IF fcPc = "idle" THEN late ELSE fcNowLate
         cached == cachedProxyBalanceUsd'
         balanceSized == /\ nowLate /\ cached # NoBalance /\ cached >= 1
                         /\ fcBuy'.size = BuySize(nowLate, cached)
     IN (fcPc # "buy1" /\ fcPc' = "buy1" /\ balanceSized)
          => /\ fcPc = "idle"
             /\ cachedProxyBalanceUsd = cached]_vars

\* C37: an ArbPosition recorded for one leg of a ticker stays recorded,
\* unchanged, until its own exit fires: a later fill of the other leg on the
\* same ticker neither replaces nor drops it.
C37_LegKeptUntilOwnExit ==
  [][\A tk \in DOMAIN openArbPositions :
       \/ /\ tk \in DOMAIN openArbPositions'
          /\ openArbPositions'[tk] = openArbPositions[tk]
       \/ /\ tk \notin DOMAIN openArbPositions'
          /\ \E y \in arbInFlight' \ arbInFlight :
               /\ y.pc = "exit" /\ y.ticker = tk
               /\ y.leg = openArbPositions[tk].leg]_vars

\* C38: the busy flag is set exactly while an evaluation is in progress, it is
\* cleared on every way an evaluation ends (a thrown venue error included),
\* and when every awaited venue call resolves a busy strategy becomes free
\* again, so later snapshots are evaluated.
C38_BusyOnlyDuringEvaluation ==
  /\ [](strategyBusy <=> fcPc # "idle")
  /\ strategyBusy ~> ~strategyBusy
C38_Witness ==
  /\ fcEvent.kind = "threw"
  /\ fcPc = "idle"
  /\ ~strategyBusy

\* C39: a confirmed buy the engine wrote to the ledger stays in the ledger
\* until its settlement id is cleared, however the engine's and the
\* redemption job's reads and writes of the file interleave.
C39_NoLostLedgerUpdate ==
  \A c \in DOMAIN bought : \A t \in DOMAIN bought[c] :
    HeldAmount(ledger, c, t) >= bought[c][t]

=============================================================================
